---- MODULE Spec2Model ----
(***************************************************************************)
(* Verification model of the Outline editor core.                          *)
(*                                                                         *)
(* Part I  (specification Spec): the update engine of OutlineEditor.js:    *)
(*   update(callbackFn, timeStamp?), the deferred commit it schedules,     *)
(*   setEditorElement, and the commit itself.                              *)
(***************************************************************************)
EXTENDS Integers, Sequences, FiniteSets, TLC

\* ------------------------------------------------------------------ bounds
\* Number of update() calls made in one behaviour.
MaxCalls == 3
\* Depth of re-entrant update() calls (a callback calling update()).
MaxDepth == 2
\* Event time stamps range over 1..MaxTs.
MaxTs == 1

\* ------------------------------------------------------------- vocabulary
\* "null" for _pendingViewModel, and "undefined" for the optional timeStamp.
NULL == 0
NoTs == -1

TimeStamps == 1 .. MaxTs
CallIds == 1 .. MaxCalls

VARIABLES
  viewModel,         \* editor._viewModel: identity of the current view model
  pendingViewModel,  \* editor._pendingViewModel: identity of the draft, or NULL
  updateTimeStamp,   \* editor._updateTimeStamp
  editorElement,     \* editor._editorElement !== null
  vms,               \* the view models ever created, indexed by identity
  stack,             \* activation records of the update() calls in progress
  microtasks,        \* number of queued Promise callbacks (each commits)
  notified,          \* view models handed to the update listeners, in order
  nCalls,            \* update() calls made so far
  calls,             \* the update() calls that returned in this turn, the
                     \* two latest of them
  last,              \* the operation that has just completed, with snapshots
  doc,               \* Part II: the draft document (tree and selection)
  prevDoc,           \* Part II: the document the latest operation started on
  lastOp,            \* Part II: the latest operation
  lastArg,           \* Part II: its argument, as a sequence
  nOps               \* Part II: operations run so far

engineVars == << viewModel, pendingViewModel, updateTimeStamp, editorElement,
                 vms, stack, microtasks, notified, nCalls, calls, last >>

editVars == << doc, prevDoc, lastOp, lastArg, nOps >>

vars == << engineVars, editVars >>

\* ------------------------------------------------------------ view models
\* A view model: the set of callback mutations it holds (by call id), whether
\* it has dirty nodes, whether its selection is dirty, the view model it
\* was cloned from, and the detached nodes its key-to-node map holds (by
\* the id of the call that detached them, TransformId for a text transform).
NewViewModel(from) ==
  [ muts |-> vms[from].muts, dirty |-> FALSE, selDirty |-> FALSE, base |-> from,
    garbage |-> vms[from].garbage ]

\* cloneViewModel(editor._viewModel): a new identity, same content, no dirt.
cloneViewModel(from) == Append(vms, NewViewModel(from))

hasDirtyNodes(d) == vms[d].dirty

viewModelHasDirtySelection(d) == vms[d].selDirty

TransformId == 0

\* applyTextTransforms(viewModel, editor): a transform may replace a dirty
\* text node, which leaves the node it replaces detached in the node map.
applyTextTransforms(vm, replaces) ==
  IF replaces THEN [ vm EXCEPT !.garbage = @ \cup { TransformId } ] ELSE vm

\* garbageCollectDetachedNodes(viewModel, editor): every node that is not
\* attached leaves the key-to-node map.
garbageCollectDetachedNodes(vm) == [ vm EXCEPT !.garbage = {} ]

\* update, lines 185-188, with the nodes collected after the transforms.
TransformAndCollect(vm, replaces) ==
  garbageCollectDetachedNodes(applyTextTransforms(vm, replaces))

\* triggerUpdateListeners: every listener receives the current view model.
triggerUpdateListeners(log, vm) == Append(log, vm)

\* commitPendingUpdates(editor): current <- pending, pending <- null, then the
\* listeners are notified.  Nothing to commit when there is no pending draft.
CommitViewModel(pending, current) == IF pending = NULL THEN current ELSE pending

CommitNotified(pending, log) ==
  IF pending = NULL THEN log ELSE triggerUpdateListeners(log, pending)

\* ----------------------------------------------------------------- update
\* OutlineEditor.update, lines 157-161: an outstanding draft is committed
\* first when the call's time stamp is not the recorded one.
MustFlushNever(pending, stamp, ts) == FALSE

MustFlush(pending, stamp, ts) == stamp # ts /\ pending # NULL

\* lines 162-164
NextTimeStamp(stamp, ts) == IF stamp # ts /\ ts # NoTs THEN ts ELSE stamp

\* lines 193-195
ShouldUpdateAlways(d) == TRUE

ShouldUpdate(d) == hasDirtyNodes(d) \/ viewModelHasDirtySelection(d)

NoLast ==
  [ op |-> "init", call |-> 0, ts |-> NoTs, value |-> FALSE, draft |-> NULL,
    cloned |-> FALSE, acted |-> FALSE, nested |-> FALSE, vm0 |-> 1,
    pend0 |-> NULL, stamp0 |-> 0, nlen0 |-> 0, outer |-> NULL ]

Top == stack[Len(stack)]

\* update(callbackFn, timeStamp), lines 155-184: up to the call of callbackFn.
UpdateBegin(ts) ==
  /\ nCalls < MaxCalls
  /\ Len(stack) < MaxDepth
  /\ LET flush   == MustFlush(pendingViewModel, updateTimeStamp, ts)
         vm1     == IF flush THEN CommitViewModel(pendingViewModel, viewModel)
                             ELSE viewModel
         log1    == IF flush THEN CommitNotified(pendingViewModel, notified)
                             ELSE notified
         local   == IF flush THEN NULL ELSE pendingViewModel
         cloned  == local = NULL
         draft   == IF cloned THEN Len(vms) + 1 ELSE local
         frame   == [ op |-> "begin", call |-> nCalls + 1, ts |-> ts,
                      value |-> FALSE, draft |-> draft, cloned |-> cloned,
                      acted |-> FALSE, nested |-> Len(stack) > 0,
                      vm0 |-> viewModel, pend0 |-> pendingViewModel,
                      stamp0 |-> updateTimeStamp, nlen0 |-> Len(notified),
                      outer |-> IF Len(stack) > 0 THEN Top.draft ELSE NULL ]
     IN /\ viewModel' = vm1
        /\ notified' = log1
        /\ updateTimeStamp' = NextTimeStamp(updateTimeStamp, ts)
        /\ vms' = IF cloned THEN cloneViewModel(vm1) ELSE vms
        /\ pendingViewModel' = draft
        /\ stack' = LET kept == [ frame EXCEPT !.op = "frame", !.stamp0 = 0,
                                                   !.outer = NULL ]
                    IN IF Len(stack) > 0
                         THEN Append([ stack EXCEPT ![Len(stack)].acted = TRUE ],
                                     kept)
                         ELSE Append(stack, kept)
        /\ nCalls' = nCalls + 1
        /\ last' = frame
  /\ UNCHANGED << editorElement, microtasks, calls >>
  /\ UNCHANGED editVars

\* callbackFn(view) marks a node of the active view model dirty.
CallbackMarkDirty ==
  /\ Len(stack) > 0
  /\ ~ vms[Top.draft].dirty \/ Top.call \notin vms[Top.draft].muts
  /\ vms' = [ vms EXCEPT ![Top.draft].dirty = TRUE,
                         ![Top.draft].muts = @ \cup { Top.call } ]
  /\ stack' = [ stack EXCEPT ![Len(stack)].acted = TRUE ]
  /\ last' = [ NoLast EXCEPT !.op = "callback" ]
  /\ UNCHANGED << viewModel, pendingViewModel, updateTimeStamp, editorElement,
                  microtasks, notified, nCalls, calls >>
  /\ UNCHANGED editVars

\* callbackFn(view) detaches a node of the active view model (node.remove()):
\* the node and its parent are made writable, hence dirty, and the node
\* stays in the key-to-node map.
CallbackDetach ==
  /\ Len(stack) > 0
  /\ Top.call \notin vms[Top.draft].garbage
  /\ vms' = [ vms EXCEPT ![Top.draft].dirty = TRUE,
                         ![Top.draft].muts = @ \cup { Top.call },
                         ![Top.draft].garbage = @ \cup { Top.call } ]
  /\ stack' = [ stack EXCEPT ![Len(stack)].acted = TRUE ]
  /\ last' = [ NoLast EXCEPT !.op = "callback" ]
  /\ UNCHANGED << viewModel, pendingViewModel, updateTimeStamp, editorElement,
                  microtasks, notified, nCalls, calls >>
  /\ UNCHANGED editVars

\* callbackFn(view) changes the selection of the active view model.
CallbackSetSelection ==
  /\ Len(stack) > 0
  /\ ~ vms[Top.draft].selDirty
  /\ vms' = [ vms EXCEPT ![Top.draft].selDirty = TRUE ]
  /\ stack' = [ stack EXCEPT ![Len(stack)].acted = TRUE ]
  /\ last' = [ NoLast EXCEPT !.op = "callback" ]
  /\ UNCHANGED << viewModel, pendingViewModel, updateTimeStamp, editorElement,
                  microtasks, notified, nCalls, calls >>
  /\ UNCHANGED editVars

\* update, lines 185-208: callbackFn has returned.
UpdateEnd ==
  /\ Len(stack) > 0
  /\ LET f      == Top
         should == ShouldUpdate(f.draft)
         sync   == should /\ f.ts = NoTs
         vm1    == IF sync THEN CommitViewModel(pendingViewModel, viewModel)
                           ELSE viewModel
         log1   == IF sync THEN CommitNotified(pendingViewModel, notified)
                           ELSE notified
         ret    == [ f EXCEPT !.op = "return", !.value = should ]
     IN /\ viewModel' = vm1
        /\ notified' = log1
        /\ pendingViewModel' =
             IF ~ should \/ sync THEN NULL ELSE pendingViewModel
        /\ microtasks' =
             IF should /\ f.ts # NoTs /\ f.cloned THEN microtasks + 1
                                                  ELSE microtasks
        /\ stack' = SubSeq(stack, 1, Len(stack) - 1)
        /\ calls' = LET r == [ ts |-> ret.ts, draft |-> ret.draft, value |-> ret.value ]
                     IN IF calls = << >> THEN << r >> ELSE << calls[Len(calls)], r >>
        /\ last' = ret
        /\ \E replaces \in BOOLEAN :
             vms' = IF hasDirtyNodes(f.draft)
                      THEN [ vms EXCEPT ![f.draft] = TransformAndCollect(@, replaces) ]
                      ELSE vms
  /\ UNCHANGED << updateTimeStamp, editorElement, nCalls >>
  /\ UNCHANGED editVars

\* The Promise callback of lines 204-206, run once the call stack is empty.
RunMicrotask ==
  /\ Len(stack) = 0
  /\ microtasks > 0
  /\ microtasks' = microtasks - 1
  /\ viewModel' = CommitViewModel(pendingViewModel, viewModel)
  /\ notified' = CommitNotified(pendingViewModel, notified)
  /\ pendingViewModel' = NULL
  /\ calls' = << >>
  /\ last' = [ NoLast EXCEPT !.op = "microtask", !.vm0 = viewModel,
                             !.pend0 = pendingViewModel,
                             !.stamp0 = updateTimeStamp,
                             !.nlen0 = Len(notified) ]
  /\ UNCHANGED << updateTimeStamp, editorElement, vms, stack, nCalls >>
  /\ UNCHANGED editVars

\* setEditorElement(editorElement), lines 124-136.
SetEditorElementDraft(pending) == NULL

setEditorElement(attach) ==
  /\ Len(stack) = 0
  /\ editorElement' = attach
  /\ LET toCommit == IF attach /\ pendingViewModel # NULL
                       THEN SetEditorElementDraft(pendingViewModel)
                       ELSE NULL
     IN /\ viewModel' = CommitViewModel(toCommit, viewModel)
        /\ notified' = CommitNotified(toCommit, notified)
        /\ pendingViewModel' = IF attach THEN NULL ELSE pendingViewModel
  /\ calls' = << >>
  /\ last' = [ NoLast EXCEPT !.op = "setEditorElement", !.value = attach,
                             !.vm0 = viewModel, !.pend0 = pendingViewModel,
                             !.stamp0 = updateTimeStamp,
                             !.nlen0 = Len(notified) ]
  /\ UNCHANGED << updateTimeStamp, vms, stack, microtasks, nCalls >>
  /\ UNCHANGED editVars

\* createEditor(): one view model, nothing pending, no surface.
EngineInit ==
  /\ viewModel = 1
  /\ pendingViewModel = NULL
  /\ updateTimeStamp = 0
  /\ editorElement = FALSE
  /\ vms = << [ muts |-> {}, dirty |-> FALSE, selDirty |-> FALSE,
                base |-> NULL, garbage |-> {} ] >>
  /\ stack = << >>
  /\ microtasks = 0
  /\ notified = << >>
  /\ nCalls = 0
  /\ calls = << >>
  /\ last = NoLast

Next ==
  \/ \E ts \in TimeStamps \cup { NoTs } : UpdateBegin(ts)
  \/ CallbackMarkDirty
  \/ CallbackDetach
  \/ CallbackSetSelection
  \/ UpdateEnd
  \/ RunMicrotask
  \/ \E attach \in BOOLEAN : setEditorElement(attach)


(***************************************************************************)
(* Part II (specification SpecEdit): the node tree, the selection and the  *)
(* selection-driven editing operations of OutlineSelectionHelpers.js.      *)
(*                                                                         *)
(* A document value d is a record                                          *)
(*   nodes     : the key -> node map (a sequence, the key is the index)    *)
(*   sel       : the selection (anchor, focus, textFormat, dirty)          *)
(*   err       : "" or the message of the invariant error that was thrown  *)
(*   dirty     : keys of the nodes made writable                           *)
(*   css       : the style strings known to the cssToStyles cache          *)
(*   composing : key of the text node under composition, or NULL           *)
(* Offsets and child indexes are 0-based, as in the source.                *)
(*                                                                         *)
(* The methods of the nodes and of the selection (OutlineNode, TextNode,   *)
(* BlockNode, Selection, Point) belong to the outline package, whose code  *)
(* is not among the sources; the sections "node queries" to "selection"    *)
(* state their behaviour. RootNode is src/unnamed/part_003.                *)
(***************************************************************************)

ROOT == 1

BlockTypes == { "root", "paragraph", "block" }

NewNode(type, text) ==
  [ type |-> type, parent |-> NULL, children |-> << >>, text |-> text,
    format |-> 0, style |-> << >>, mode |-> "normal" ]

Point(key, offset, type) == [ key |-> key, offset |-> offset, type |-> type ]

Throw(d, msg) == IF d.err = "" THEN [ d EXCEPT !.err = msg ] ELSE d

\* A function result: the document after the call and the value returned.
Ret(d, r) == [ d |-> d, r |-> r ]

\* ----------------------------------------------------------- node queries
HasNode(d, k) == k \in 1 .. Len(d.nodes)

isTextNode(d, k) == HasNode(d, k) /\ d.nodes[k].type = "text"

isBlockNode(d, k) == HasNode(d, k) /\ d.nodes[k].type \in BlockTypes

isRootNode(d, k) == HasNode(d, k) /\ d.nodes[k].type = "root"

isDecoratorNode(d, k) == HasNode(d, k) /\ d.nodes[k].type = "decorator"

isLineBreakNode(d, k) == HasNode(d, k) /\ d.nodes[k].type = "linebreak"

isLeafNode(d, k) == HasNode(d, k) /\ d.nodes[k].type \notin BlockTypes

isSegmented(d, k) == d.nodes[k].mode = "segmented"

isImmutable(d, k) == d.nodes[k].mode = "immutable"

isInert(d, k) == d.nodes[k].mode = "inert"

isHashtagNode(d, k) == HasNode(d, k) /\ d.nodes[k].mode = "hashtag"

isImmutableOrInert(d, k) == isImmutable(d, k) \/ isInert(d, k)

isSimpleText(d, k) == d.nodes[k].type = "text" /\ d.nodes[k].mode = "normal"

canInsertTextAtEnd(d, k) == d.nodes[k].mode # "hashtag"

isComposing(d, k) == d.composing = k

\* 0-based index of x in the sequence s, -1 when absent (Array.indexOf).
IndexOf(s, x) ==
  IF \E i \in 1 .. Len(s) : s[i] = x
    THEN (CHOOSE i \in 1 .. Len(s) :
            s[i] = x /\ \A j \in 1 .. (i - 1) : s[j] # x) - 1
    ELSE -1

\* s[i] for a 0-based index i, NULL outside the sequence.
ChildAt(s, i) == IF i >= 0 /\ i < Len(s) THEN s[i + 1] ELSE NULL

getParent(d, k) == d.nodes[k].parent

getChildren(d, k) == d.nodes[k].children

getChildrenSize(d, k) == Len(d.nodes[k].children)

isEmpty(d, k) == d.nodes[k].children = << >>

getChildAtIndex(d, k, i) == ChildAt(d.nodes[k].children, i)

getFirstChild(d, k) == ChildAt(d.nodes[k].children, 0)

getLastChild(d, k) ==
  ChildAt(d.nodes[k].children, Len(d.nodes[k].children) - 1)

getIndexWithinParent(d, k) ==
  IF d.nodes[k].parent = NULL THEN -1
  ELSE IndexOf(d.nodes[d.nodes[k].parent].children, k)

\* The child of the parent of k that is delta places after k.
SiblingAt(d, k, delta) ==
  IF d.nodes[k].parent = NULL THEN NULL
  ELSE ChildAt(d.nodes[d.nodes[k].parent].children,
               IndexOf(d.nodes[d.nodes[k].parent].children, k) + delta)

getNextSibling(d, k) == SiblingAt(d, k, 1)

getPreviousSibling(d, k) == SiblingAt(d, k, -1)

getNextSiblings(d, k) ==
  IF d.nodes[k].parent = NULL THEN << >>
  ELSE SubSeq(d.nodes[d.nodes[k].parent].children,
              IndexOf(d.nodes[d.nodes[k].parent].children, k) + 2,
              Len(d.nodes[d.nodes[k].parent].children))

SeqToSet(s) == { s[i] : i \in 1 .. Len(s) }

Reverse(s) == [ i \in 1 .. Len(s) |-> s[Len(s) + 1 - i] ]

\* The keys of the ancestors of k, nearest first.  The walk is cut at the
\* number of nodes, so that it ends on a (detached) cycle too.
RECURSIVE ParentChain(_, _, _)
ParentChain(d, k, fuel) ==
  IF fuel = 0 \/ d.nodes[k].parent = NULL THEN << >>
  ELSE << d.nodes[k].parent >> \o ParentChain(d, d.nodes[k].parent, fuel - 1)

getParentKeys(d, k) == SeqToSet(ParentChain(d, k, Len(d.nodes)))

isParentOf(d, k, t) == k \in getParentKeys(d, t)

isAttached(d, k) == k = ROOT \/ ROOT \in getParentKeys(d, k)

\* The element of chain whose successor is the root (NULL when there is none).
BelowRoot(chain) ==
  IF \E i \in 1 .. (Len(chain) - 1) : chain[i + 1] = ROOT
    THEN chain[CHOOSE i \in 1 .. (Len(chain) - 1) : chain[i + 1] = ROOT]
    ELSE NULL

\* The outermost block ancestor below the root (NULL when there is none).
getTopParentBlock(d, k) ==
  BelowRoot(<< k >> \o ParentChain(d, k, Len(d.nodes)))

RECURSIVE FirstDescendantFrom(_, _, _)
FirstDescendantFrom(d, k, fuel) ==
  IF fuel > 0 /\ isBlockNode(d, k) /\ ~ isEmpty(d, k)
    THEN FirstDescendantFrom(d, getFirstChild(d, k), fuel - 1)
    ELSE k

RECURSIVE LastDescendantFrom(_, _, _)
LastDescendantFrom(d, k, fuel) ==
  IF fuel > 0 /\ isBlockNode(d, k) /\ ~ isEmpty(d, k)
    THEN LastDescendantFrom(d, getLastChild(d, k), fuel - 1)
    ELSE k

getFirstDescendant(d, k) ==
  IF isEmpty(d, k) THEN NULL
  ELSE FirstDescendantFrom(d, getFirstChild(d, k), Len(d.nodes))

getLastDescendant(d, k) ==
  IF isEmpty(d, k) THEN NULL
  ELSE LastDescendantFrom(d, getLastChild(d, k), Len(d.nodes))

getDescendantByIndex(d, k, index) ==
  IF isEmpty(d, k) THEN k
  ELSE IF index >= getChildrenSize(d, k)
    THEN LastDescendantFrom(d, getLastChild(d, k), Len(d.nodes))
    ELSE FirstDescendantFrom(d, getChildAtIndex(d, k, index), Len(d.nodes))

NewLine == "\n"

\* The text of the nodes ks, in order; an inert text node has no text content.
RECURSIVE TextOfAll(_, _, _)
TextOfAll(d, ks, fuel) ==
  IF ks = << >> THEN << >>
  ELSE (IF isTextNode(d, Head(ks))
          THEN (IF isInert(d, Head(ks)) THEN << >> ELSE d.nodes[Head(ks)].text)
        ELSE IF isLineBreakNode(d, Head(ks)) THEN << NewLine >>
        ELSE IF isBlockNode(d, Head(ks)) /\ fuel > 0
          THEN TextOfAll(d, d.nodes[Head(ks)].children, fuel - 1)
        ELSE << >>) \o TextOfAll(d, Tail(ks), fuel)

getTextContent(d, k) == TextOfAll(d, << k >>, Len(d.nodes))

getTextContentSize(d, k) == Len(getTextContent(d, k))

getFormat(d, k) == d.nodes[k].format

getStyle(d, k) == d.nodes[k].style


\* ------------------------------------------------------- node primitives
Undef == -1

markDirty(d, k) == [ d EXCEPT !.dirty = @ \cup { k } ]

\* The key the next created node gets.
NextKey(d) == Len(d.nodes) + 1

createNode(d, type, text) ==
  [ d EXCEPT !.nodes = Append(@, NewNode(type, text)),
             !.dirty = @ \cup { Len(d.nodes) + 1 } ]

createTextNode(d, text) == createNode(d, "text", text)

createLineBreakNode(d) == createNode(d, "linebreak", << >>)

RemoveAt(s, i) == SubSeq(s, 1, i) \o SubSeq(s, i + 2, Len(s))

InsertAt(s, i, xs) == SubSeq(s, 1, i) \o xs \o SubSeq(s, i + 1, Len(s))

\* Array.splice(i, 1) on the child list of p, when i is an index.
DropAt(d, p, i) ==
  IF i = -1 THEN d
  ELSE markDirty([ d EXCEPT !.nodes[p].children = RemoveAt(@, i) ], p)

\* Array.splice(index, 1) on the child list of p, for the key k when present.
DropChild(d, p, k) == DropAt(d, p, IndexOf(d.nodes[p].children, k))

setPoint(d, which, key, offset, type) ==
  [ d EXCEPT !.sel[which] = Point(key, offset, type), !.sel.dirty = TRUE ]

setTextNodeRange(d, a, ao, f, fo) ==
  [ d EXCEPT !.sel.anchor = Point(a, ao, "text"),
             !.sel.focus = Point(f, fo, "text"),
             !.sel.dirty = TRUE ]

\* Where moveSelectionPointToSibling puts a point that was on k, given the
\* siblings of k and its index in its parent.
SiblingPoint(d, k, prev, next, idx) ==
  IF isTextNode(d, prev) THEN Point(prev, getTextContentSize(d, prev), "text")
  ELSE IF isBlockNode(d, prev)
    THEN Point(prev, getChildrenSize(d, prev), "block")
  ELSE IF prev = NULL /\ isTextNode(d, next) THEN Point(next, 0, "text")
  ELSE IF prev = NULL /\ isBlockNode(d, next) THEN Point(next, 0, "block")
  ELSE Point(d.nodes[k].parent,
             IF idx = -1 THEN getChildrenSize(d, d.nodes[k].parent) ELSE idx,
             "block")

moveSelectionPointToSibling(d, k) ==
  SiblingPoint(d, k, getPreviousSibling(d, k), getNextSibling(d, k),
               getIndexWithinParent(d, k))

\* The points of the selection that are on k are moved to p.
MovePoints(d, k, p) ==
  [ d EXCEPT !.sel.anchor = IF @.key = k THEN p ELSE @,
             !.sel.focus = IF @.key = k THEN p ELSE @,
             !.sel.dirty = @ \/ d.sel.anchor.key = k \/ d.sel.focus.key = k ]

\* A variant of RootNode.select without the override: the select of the
\* block node that RootNode extends.
RootNode_selectInherited(d) ==
  [ d EXCEPT !.sel.anchor = Point(ROOT, Len(d.nodes[ROOT].children), "block"),
             !.sel.focus = Point(ROOT, Len(d.nodes[ROOT].children), "block"),
             !.sel.dirty = TRUE ]

\* The methods RootNode overrides (src/unnamed/part_003, lines 50-71): each
\* is a failing invariant and nothing else.
RootNode_select(d) == Throw(d, "select: cannot be called on root nodes")

RootNode_remove(d) == Throw(d, "remove: cannot be called on root nodes")

RootNode_replace(d, n) == Throw(d, "replace: cannot be called on root nodes")

RootNode_insertBefore(d, n) ==
  Throw(d, "insertBefore: cannot be called on root nodes")

RootNode_insertAfter(d, n) ==
  Throw(d, "insertAfter: cannot be called on root nodes")

\* k leaves the child list of its parent and has no parent any more.
Detach(d, k) ==
  markDirty([ DropChild(d, d.nodes[k].parent, k)
                EXCEPT !.nodes[k].parent = NULL ], k)

removeNode(d, k, restoreSelection) ==
  IF d.err # "" \/ d.nodes[k].parent = NULL THEN d
  ELSE Detach(IF /\ restoreSelection
                 /\ (d.sel.anchor.key = k \/ d.sel.focus.key = k)
                THEN MovePoints(d, k, moveSelectionPointToSibling(d, k))
                ELSE d, k)

remove(d, k) ==
  IF d.err # "" THEN d
  ELSE IF isRootNode(d, k) THEN RootNode_remove(d)
  ELSE removeNode(d, k, TRUE)

\* A variant of Unlink that leaves n in the child list of its old parent.
UnlinkKeepsChild(d, n) == d

\* Detach n from the child list of its old parent (its parent field is
\* overwritten by the caller).
Unlink(d, n) ==
  IF d.nodes[n].parent = NULL THEN d ELSE DropChild(d, d.nodes[n].parent, n)

\* n becomes a child of p, delta places after the index i (at the end of the
\* list when i is -1).
PlaceAt(d, p, n, i, delta) ==
  markDirty([ d EXCEPT !.nodes[n].parent = p,
                       !.nodes[p].children =
                         IF i > -1 THEN InsertAt(@, i + delta, << n >>)
                         ELSE Append(@, n) ], p)

\* n becomes the sibling of k, delta places after it.
PlaceNextTo(d, k, n, delta) ==
  IF d.nodes[k].parent = NULL THEN Throw(d, "Expected node to have a parent")
  ELSE PlaceAt(d, d.nodes[k].parent, n,
               IndexOf(d.nodes[d.nodes[k].parent].children, k), delta)

insertAfter(d, k, n) ==
  IF d.err # "" THEN d
  ELSE IF isRootNode(d, k) THEN RootNode_insertAfter(d, n)
  ELSE PlaceNextTo(Unlink(markDirty(markDirty(d, k), n), n), k, n, 1)

insertBefore(d, k, n) ==
  IF d.err # "" THEN d
  ELSE IF isRootNode(d, k) THEN RootNode_insertBefore(d, n)
  ELSE PlaceNextTo(Unlink(markDirty(markDirty(d, k), n), n), k, n, 0)

\* The child list of b with n at its end.
Adopt(d, b, n) ==
  [ d EXCEPT !.nodes[n].parent = b, !.nodes[b].children = Append(@, n) ]

BlockAppend(d, b, n) ==
  IF d.err # "" THEN d
  ELSE Adopt(Unlink(markDirty(markDirty(d, b), n), n), b, n)

RECURSIVE AppendAll(_, _, _)
AppendAll(d, b, ns) ==
  IF ns = << >> THEN d
  ELSE AppendAll(BlockAppend(d, b, Head(ns)), b, Tail(ns))

\* A variant of RootNode.append that checks each argument when its turn
\* comes: the arguments before the offending one are appended.
RECURSIVE RootNode_appendInTurn(_, _)
RootNode_appendInTurn(d, nodesToAppend) ==
  IF nodesToAppend = << >> \/ d.err # "" THEN d
  ELSE IF ~ isBlockNode(d, Head(nodesToAppend))
    THEN Throw(d, "rootNode.append: Only element nodes can be appended to the root node")
  ELSE RootNode_appendInTurn(BlockAppend(d, ROOT, Head(nodesToAppend)),
                             Tail(nodesToAppend))

\* RootNode.append (src/unnamed/part_003, lines 81-91): every argument is
\* checked before super.append appends anything.
RootNode_append(d, nodesToAppend) ==
  IF \E i \in 1 .. Len(nodesToAppend) : ~ isBlockNode(d, nodesToAppend[i])
    THEN Throw(d, "rootNode.append: Only element nodes can be appended to the root node")
  ELSE AppendAll(d, ROOT, nodesToAppend)

append(d, b, ns) ==
  IF d.err # "" THEN d
  ELSE IF isRootNode(d, b) THEN RootNode_append(d, ns)
  ELSE AppendAll(d, b, ns)

\* The point at the end of n.
EndPoint(d, n) ==
  IF isTextNode(d, n) THEN Point(n, getTextContentSize(d, n), "text")
  ELSE Point(n, getChildrenSize(d, n), "block")

moveSelectionPointToEnd(d, k, n) ==
  IF isTextNode(d, n) \/ isBlockNode(d, n)
    THEN MovePoints(d, k, EndPoint(d, n))
    ELSE d

\* n takes the place i of k in the child list of p; k is removed without
\* restoring the selection, whose points on k move to the end of n.
ReplaceAt(d, k, n, p, i) ==
  IF i = -1 THEN Throw(d, "Node is not a child of its parent")
  ELSE moveSelectionPointToEnd(
         removeNode(markDirty([ d EXCEPT !.nodes[p].children =
                                           InsertAt(@, i, << n >>),
                                         !.nodes[n].parent = p ], p),
                    k, FALSE),
         k, n)

ReplaceIn(d, k, n) ==
  IF d.nodes[k].parent = NULL THEN Throw(d, "Expected node to have a parent")
  ELSE ReplaceAt(d, k, n, d.nodes[k].parent,
                 IndexOf(d.nodes[d.nodes[k].parent].children, k))

replace(d, k, n) ==
  IF d.err # "" THEN d
  ELSE IF isRootNode(d, k) THEN RootNode_replace(d, n)
  ELSE ReplaceIn(Unlink(markDirty(d, n), n), k, n)


\* ------------------------------------------------------- text primitives
Max(a, b) == IF a > b THEN a ELSE b

Min(a, b) == IF a < b THEN a ELSE b

\* String.prototype.slice(a, b); b = Undef stands for an omitted end.
JsSlice(s, a, b) ==
  SubSeq(s,
         (IF a < 0 THEN Max(Len(s) + a, 0) ELSE Min(a, Len(s))) + 1,
         IF b = Undef THEN Len(s) ELSE Min(b, Len(s)))

\* The least element of the non-empty set S.
Least(S) == CHOOSE x \in S : \A y \in S : x <= y

RECURSIVE SortedSeq(_)
SortedSeq(S) ==
  IF S = {} THEN << >>
  ELSE << Least(S) >> \o SortedSeq(S \ { Least(S) })

setTextContent(d, k, text) ==
  IF d.err # "" THEN d
  ELSE IF isImmutable(d, k)
    THEN Throw(d, "setTextContent: can only be used on non-immutable text nodes")
  ELSE markDirty([ d EXCEPT !.nodes[k].text = text ], k)

setFormat(d, k, format) ==
  IF d.err # "" THEN d
  ELSE IF isImmutable(d, k)
    THEN Throw(d, "setFormat: can only be used on non-immutable nodes")
  ELSE markDirty([ d EXCEPT !.nodes[k].format = format ], k)

setStyle(d, k, style) ==
  IF d.err # "" THEN d
  ELSE IF isImmutable(d, k)
    THEN Throw(d, "setStyle: can only be used on non-immutable nodes")
  ELSE markDirty([ d EXCEPT !.nodes[k].style = style ], k)

\* text with delCount units from index replaced by newText.
Spliced(text, index, delCount, newText) ==
  JsSlice(text, 0, index) \o newText \o JsSlice(text, index + delCount, Undef)

spliceText(d, k, offset, delCount, newText, moveSelection) ==
  IF d.err # "" THEN d
  ELSE IF isImmutable(d, k)
    THEN Throw(d, "spliceText: can only be used on non-immutable text nodes")
  ELSE setTextContent(
         IF moveSelection
           THEN setTextNodeRange(d, k, offset + Len(newText),
                                 k, offset + Len(newText))
           ELSE d,
         k,
         Spliced(d.nodes[k].text,
                 IF offset < 0 THEN Max(Len(newText) + offset, 0) ELSE offset,
                 delCount, newText))

\* The bounds of the parts splitText cuts the text of k into.
SplitBounds(d, k, offsets) ==
  << 0 >> \o SortedSeq({ o \in offsets : o > 0 /\ o < Len(d.nodes[k].text) })
          \o << Len(d.nodes[k].text) >>

\* The keys of the n parts: a segmented node is replaced by new nodes, any
\* other node stays as the first part.
SplitKeys(d, k, n) ==
  [ i \in 1 .. n |-> IF isSegmented(d, k) THEN Len(d.nodes) + i
                     ELSE IF i = 1 THEN k ELSE Len(d.nodes) + i - 1 ]

\* The new node that holds the i-th part of k.
SplitPart(d, k, bounds, i) ==
  [ NewNode("text", SubSeq(d.nodes[k].text, bounds[i] + 1, bounds[i + 1]))
      EXCEPT !.parent = d.nodes[k].parent,
             !.format = d.nodes[k].format,
             !.style = d.nodes[k].style ]

\* The node map after the split of k, the child i0 of parent, as a sequence.
SplitNodes(d, k, parent, bounds, keyOf, i0) ==
  << >> \o
  [ j \in 1 .. keyOf[Len(keyOf)] |->
      IF j > Len(d.nodes)
        THEN SplitPart(d, k, bounds,
                       j - Len(d.nodes) + (IF isSegmented(d, k) THEN 0 ELSE 1))
      ELSE IF j = k /\ ~ isSegmented(d, k)
        THEN [ d.nodes[k] EXCEPT !.text = SubSeq(@, 1, bounds[2]) ]
      ELSE IF j = parent
        THEN [ d.nodes[parent] EXCEPT !.children =
                 InsertAt(IF isSegmented(d, k) THEN @ ELSE RemoveAt(@, i0),
                          i0, keyOf) ]
      ELSE d.nodes[j] ]

\* A point of the selection that lies in a later part follows that part.
SplitMovePoint(p, k, bounds, keyOf) ==
  IF /\ p.key = k
     /\ p.type = "text"
     /\ \E i \in 2 .. (Len(bounds) - 1) :
          p.offset > bounds[i] /\ p.offset <= bounds[i + 1]
    THEN Point(keyOf[CHOOSE i \in 2 .. (Len(bounds) - 1) :
                       p.offset > bounds[i] /\ p.offset <= bounds[i + 1]],
               p.offset - bounds[CHOOSE i \in 2 .. (Len(bounds) - 1) :
                                   p.offset > bounds[i]
                                     /\ p.offset <= bounds[i + 1]],
               "text")
    ELSE p

SplitDoc(d, k, bounds, keyOf) ==
  [ d EXCEPT
      !.nodes = SplitNodes(d, k, d.nodes[k].parent, bounds, keyOf,
                           IndexOf(d.nodes[d.nodes[k].parent].children, k)),
      !.sel.anchor = SplitMovePoint(@, k, bounds, keyOf),
      !.sel.focus = SplitMovePoint(@, k, bounds, keyOf),
      !.sel.dirty = \/ @
                    \/ SplitMovePoint(d.sel.anchor, k, bounds, keyOf)
                         # d.sel.anchor
                    \/ SplitMovePoint(d.sel.focus, k, bounds, keyOf)
                         # d.sel.focus,
      !.dirty = @ \cup { k, d.nodes[k].parent }
                  \cup (Len(d.nodes) + 1) .. keyOf[Len(keyOf)] ]

\* A segmented node that was split is removed.
SplitDone(d, k) == IF isSegmented(d, k) THEN remove(d, k) ELSE d

SplitInto(d, k, bounds) ==
  IF Len(bounds) = 2 THEN Ret(d, << k >>)
  ELSE IF d.nodes[k].parent = NULL
    THEN Ret(Throw(d, "Expected node to have a parent"), << >>)
  ELSE Ret(SplitDone(SplitDoc(d, k, bounds, SplitKeys(d, k, Len(bounds) - 1)),
                     k),
           SplitKeys(d, k, Len(bounds) - 1))

\* TextNode.splitText(...offsets): returns the keys of the parts.
splitText(d, k, offsets) ==
  IF d.err # "" THEN Ret(d, << >>)
  ELSE IF isImmutable(d, k)
    THEN Ret(Throw(d, "splitText: can only be used on non-immutable text nodes"),
             << >>)
  ELSE IF d.nodes[k].text = << >> THEN Ret(d, << >>)
  ELSE SplitInto(d, k, SplitBounds(d, k, offsets))

\* ------------------------------------------------- selecting through nodes
\* The offset an omitted argument of select stands for.
OrSize(a, n) == IF a = Undef THEN n ELSE a

blockSelect(d, k, a, f) ==
  IF d.err # "" THEN d
  ELSE [ d EXCEPT
           !.sel.anchor = Point(k, OrSize(a, getChildrenSize(d, k)), "block"),
           !.sel.focus = Point(k, OrSize(f, getChildrenSize(d, k)), "block"),
           !.sel.dirty = TRUE ]

\* The text selection a to f on k, whose text has n units.
TextRange(d, k, a, f, n) ==
  setTextNodeRange(d, k, OrSize(a, n), k, OrSize(f, n))

textSelect(d, k, a, f) ==
  IF d.err # "" THEN d
  ELSE TextRange(d, k, a, f, getTextContentSize(d, k))

select(d, k, a, f) ==
  IF d.err # "" THEN d
  ELSE IF isRootNode(d, k) THEN RootNode_select(d)
  ELSE IF isBlockNode(d, k) THEN blockSelect(d, k, a, f)
  ELSE IF isTextNode(d, k) THEN textSelect(d, k, a, f)
  ELSE Throw(d, "select is not a function")

\* select(t.a, t.f) on the node t.key.
SelectAs(d, t) == select(d, t.key, t.a, t.f)

SelectArgs(key, a, f) == [ key |-> key, a |-> a, f |-> f ]

\* The node and the offsets selectPrevious selects, prev being the previous
\* sibling of k.
PreviousTarget(d, k, a, f, prev) ==
  IF prev = NULL THEN SelectArgs(d.nodes[k].parent, 0, 0)
  ELSE IF isBlockNode(d, prev) THEN SelectArgs(prev, Undef, Undef)
  ELSE IF ~ isTextNode(d, prev)
    THEN SelectArgs(d.nodes[k].parent, getIndexWithinParent(d, prev) + 1,
                    getIndexWithinParent(d, prev) + 1)
  ELSE SelectArgs(prev, a, f)

selectPrevious(d, k, a, f) ==
  IF d.err # "" THEN d
  ELSE IF d.nodes[k].parent = NULL
    THEN Throw(d, "Expected node to have a parent")
  ELSE SelectAs(d, PreviousTarget(d, k, a, f, getPreviousSibling(d, k)))

\* The node and the offsets selectNext selects, next being the next sibling
\* of k.
NextTarget(d, k, a, f, next) ==
  IF next = NULL THEN SelectArgs(d.nodes[k].parent, Undef, Undef)
  ELSE IF isBlockNode(d, next) THEN SelectArgs(next, 0, 0)
  ELSE IF ~ isTextNode(d, next)
    THEN SelectArgs(d.nodes[k].parent, getIndexWithinParent(d, next),
                    getIndexWithinParent(d, next))
  ELSE SelectArgs(next, a, f)

selectNext(d, k, a, f) ==
  IF d.err # "" THEN d
  ELSE IF d.nodes[k].parent = NULL
    THEN Throw(d, "Expected node to have a parent")
  ELSE SelectAs(d, NextTarget(d, k, a, f, getNextSibling(d, k)))

\* Selecting the edge of k at its descendant leaf (NULL when k is empty).
SelectEdge(d, k, leaf, atStart) ==
  IF leaf = NULL \/ isBlockNode(d, leaf) \/ isTextNode(d, leaf)
    THEN select(d, IF leaf = NULL THEN k ELSE leaf,
                IF atStart THEN 0 ELSE Undef, IF atStart THEN 0 ELSE Undef)
  ELSE IF atStart THEN selectPrevious(d, leaf, Undef, Undef)
  ELSE selectNext(d, leaf, Undef, Undef)

selectStart(d, k) ==
  IF d.err # "" THEN d ELSE SelectEdge(d, k, getFirstDescendant(d, k), TRUE)

selectEnd(d, k) ==
  IF d.err # "" THEN d ELSE SelectEdge(d, k, getLastDescendant(d, k), FALSE)


\* ------------------------------------------------------------- selection
Other(which) == IF which = "anchor" THEN "focus" ELSE "anchor"

isCollapsed(d) == d.sel.anchor = d.sel.focus

\* [this] followed by its ancestors when this is a block, else its ancestors.
AncestorsOrSelf(d, k) ==
  (IF isBlockNode(d, k) THEN << k >> ELSE << >>)
    \o ParentChain(d, k, Len(d.nodes))

\* The first key of ca that is in cb too, when both chains end at one root.
CommonOf(ca, cb) ==
  IF \/ ca = << >>
     \/ cb = << >>
     \/ ca[Len(ca)] # cb[Len(cb)]
     \/ \A i \in 1 .. Len(ca) : ca[i] \notin SeqToSet(cb)
    THEN NULL
    ELSE ca[CHOOSE i \in 1 .. Len(ca) :
              /\ ca[i] \in SeqToSet(cb)
              /\ \A j \in 1 .. (i - 1) : ca[j] \notin SeqToSet(cb)]

getCommonAncestor(d, a, b) ==
  CommonOf(AncestorsOrSelf(d, a), AncestorsOrSelf(d, b))

\* Index, in the child list of anc, of the first key of chain that is a child
\* of anc (-1 if none).
BranchIn(d, anc, chain) ==
  IF \A i \in 1 .. Len(chain) : d.nodes[chain[i]].parent # anc THEN -1
  ELSE IndexOf(d.nodes[anc].children,
               chain[CHOOSE i \in 1 .. Len(chain) :
                       /\ d.nodes[chain[i]].parent = anc
                       /\ \A j \in 1 .. (i - 1) :
                            d.nodes[chain[j]].parent # anc])

\* Index, in the child list of anc, of the branch that holds k (-1 if none).
BranchIndex(d, k, anc) ==
  BranchIn(d, anc, << k >> \o ParentChain(d, k, Len(d.nodes)))

\* The order of two branches of one ancestor.
BranchOrder(ia, ib) ==
  IF ia = -1 \/ ib = -1 THEN "throw"
  ELSE IF ia < ib THEN "before" ELSE "after"

OrderUnder(d, a, b, anc) ==
  IF anc = NULL THEN "throw"
  ELSE BranchOrder(BranchIndex(d, a, anc), BranchIndex(d, b, anc))

\* OutlineNode.isBefore: "before" for true, "after" for false, "throw" when
\* the two nodes share no ancestor.
NodeOrder(d, a, b) ==
  IF isParentOf(d, b, a) THEN "before"
  ELSE IF isParentOf(d, a, b) THEN "after"
  ELSE OrderUnder(d, a, b, getCommonAncestor(d, a, b))

PointNode(d, p) ==
  IF isBlockNode(d, p.key) THEN getDescendantByIndex(d, p.key, p.offset)
  ELSE p.key

\* Point.isBefore on the nodes na and nb of the points a and b.
PointOrderOf(d, a, b, na, nb) ==
  IF na = nb THEN (IF a.offset < b.offset THEN "before" ELSE "after")
  ELSE NodeOrder(d, na, nb)

PointOrder(d, a, b) == PointOrderOf(d, a, b, PointNode(d, a), PointNode(d, b))

\* acc with node visited.
Visit(acc, node) ==
  IF node \in acc.visited THEN acc
  ELSE [ acc EXCEPT !.visited = @ \cup { node }, !.nodes = Append(@, node) ]

\* acc with the ancestor up listed, unless it was visited.
Pass(acc, up) ==
  IF up \in acc.visited THEN acc ELSE [ acc EXCEPT !.nodes = Append(@, up) ]

RECURSIVE Walk(_, _, _, _, _, _)
RECURSIVE Climb(_, _, _, _, _, _)
\* One round of the loop of OutlineNode.getNodesBetween, node being visited
\* already.
WalkOn(d, node, target, fwd, acc, fuel, child, sib) ==
  IF fuel = 0 THEN [ acc EXCEPT !.err = TRUE ]
  ELSE IF node = target THEN acc
  ELSE IF child # NULL THEN Walk(d, child, target, fwd, acc, fuel - 1)
  ELSE IF sib # NULL THEN Walk(d, sib, target, fwd, acc, fuel - 1)
  ELSE IF d.nodes[node].parent = NULL THEN [ acc EXCEPT !.err = TRUE ]
  ELSE IF d.nodes[node].parent = target THEN Pass(acc, d.nodes[node].parent)
  ELSE Climb(d, d.nodes[node].parent, target, fwd,
             Pass(acc, d.nodes[node].parent), fuel - 1)

\* The loop of OutlineNode.getNodesBetween; acc = [nodes, visited, err].
Walk(d, node, target, fwd, acc, fuel) ==
  WalkOn(d, node, target, fwd, Visit(acc, node), fuel,
         IF isBlockNode(d, node)
           THEN (IF fwd THEN getFirstChild(d, node) ELSE getLastChild(d, node))
           ELSE NULL,
         IF fwd THEN getNextSibling(d, node) ELSE getPreviousSibling(d, node))

\* The inner loop, which looks for a sibling of an ancestor: ps is the sibling
\* of ancestor and up its parent.
ClimbOn(d, target, fwd, acc, fuel, ps, up) ==
  IF ps # NULL THEN Walk(d, ps, target, fwd, acc, fuel - 1)
  ELSE Climb(d, up, target, fwd, IF up # NULL THEN Pass(acc, up) ELSE acc,
             fuel - 1)

Climb(d, ancestor, target, fwd, acc, fuel) ==
  IF ancestor = NULL \/ fuel = 0 THEN [ acc EXCEPT !.err = TRUE ]
  ELSE ClimbOn(d, target, fwd, acc, fuel,
               IF fwd THEN getNextSibling(d, ancestor)
               ELSE getPreviousSibling(d, ancestor),
               d.nodes[ancestor].parent)

\* The nodes walked, in document order.
Walked(w, fwd) ==
  [ nodes |-> IF fwd THEN w.nodes ELSE Reverse(w.nodes), err |-> w.err ]

NodesInOrder(d, a, b, order) ==
  IF order = "throw" THEN [ nodes |-> << >>, err |-> TRUE ]
  ELSE Walked(Walk(d, a, b, order = "before",
                   [ nodes |-> << >>, visited |-> {}, err |-> FALSE ],
                   4 * Len(d.nodes)),
              order = "before")

getNodesBetween(d, a, b) == NodesInOrder(d, a, b, NodeOrder(d, a, b))

NodesFrom(d, firstN, lastN) ==
  IF firstN = lastN
    THEN [ nodes |-> IF isBlockNode(d, firstN) THEN << >> ELSE << firstN >>,
           err |-> FALSE ]
    ELSE getNodesBetween(d, firstN, lastN)

\* Selection.getNodes: [nodes, err].
getNodes(d) ==
  NodesFrom(d, PointNode(d, d.sel.anchor), PointNode(d, d.sel.focus))


\* --------------------------------------------------------------- insertText
\* The end point after textNode was put at the start point (lines 1102-1111).
TransferEnd(d, end, block, startOffset, textNode) ==
  IF d.sel[end].type = "block" /\ d.sel[end].key = block
    THEN IF d.sel[end].offset = startOffset
           THEN setPoint(d, end, textNode, 0, "text")
           ELSE [ d EXCEPT !.sel[end].offset = @ + 1 ]
    ELSE d

\* A variant of the adjustment of the points that leaves the end point as it
\* is.
TransferPointsEndKept(d, start, end, block, startOffset, textNode) ==
  IF d.err # "" THEN d
  ELSE setPoint(d, start, textNode, 0, "text")

\* The two points after textNode was inserted (lines 1102-1113).
TransferPoints(d, start, end, block, startOffset, textNode) ==
  IF d.err # "" THEN d
  ELSE setPoint(TransferEnd(d, end, block, startOffset, textNode),
                start, textNode, 0, "text")

\* The new text node is put at placementNode (lines 1095-1100).
TransferInto(d, start, end, block, placementNode) ==
  TransferPoints(IF placementNode = NULL
                   THEN append(createTextNode(d, << >>), block,
                               << NextKey(d) >>)
                   ELSE insertBefore(createTextNode(d, << >>), placementNode,
                                     NextKey(d)),
                 start, end, block, d.sel[start].offset, NextKey(d))

\* A variant of transferStartingBlockPointToTextPoint that leaves the block
\* point where it is and creates no text node.
transferStartingBlockPointKept(d, start, end) == d

transferStartingBlockPointToTextPoint(d, start, end) ==
  IF d.err # "" THEN d
  ELSE IF ~ isBlockNode(d, d.sel[start].key)
    THEN Throw(d, "getChildAtIndex is not a function")
  ELSE TransferInto(d, start, end, d.sel[start].key,
                    getChildAtIndex(d, d.sel[start].key, d.sel[start].offset))

\* After the splice into firstNode (lines 1206-1210 and 1307-1311).
insertTextSpliced(d, firstNode, text) ==
  IF d.err # "" THEN d
  ELSE IF getTextContent(d, firstNode) = << >> THEN remove(d, firstNode)
  ELSE IF isComposing(d, firstNode) /\ d.sel.anchor.type = "text"
    THEN [ d EXCEPT !.sel.anchor.offset = @ - Len(text) ]
  ELSE d

\* A new text node of the selection's format after the split (lines 1198-1202).
insertTextAfterSplit(sp, text, textFormat) ==
  IF sp.d.err # "" THEN sp.d
  ELSE IF sp.r = << >> THEN Throw(sp.d, "targetNode is undefined")
  ELSE select(insertAfter(setFormat(createTextNode(sp.d, text),
                                    NextKey(sp.d), textFormat),
                          sp.r[1], NextKey(sp.d)),
              NextKey(sp.d), Undef, Undef)

\* A variant of the branch for a single selected leaf that splices the text
\* in without deleting the selected range.
insertTextSingleKeepsRange(d, firstNode, startOffset, endOffset, text, textFormat) ==
  insertTextSpliced(spliceText(d, firstNode, startOffset, 0, text, TRUE),
                    firstNode, text)

\* The branch for a single selected leaf (lines 1185-1211).
insertTextSingle(d, firstNode, startOffset, endOffset, text, textFormat) ==
  IF d.err # "" THEN d
  ELSE IF isImmutableOrInert(d, firstNode) THEN remove(d, firstNode)
  ELSE IF /\ startOffset = endOffset
          /\ getFormat(d, firstNode) # textFormat
          /\ getTextContent(d, firstNode) # << >>
    THEN insertTextAfterSplit(splitText(d, firstNode, { startOffset }),
                              text, textFormat)
  ELSE insertTextSpliced(
         spliceText(IF /\ startOffset = endOffset
                       /\ getFormat(d, firstNode) # textFormat
                      THEN setFormat(d, firstNode, textFormat)
                      ELSE d,
                    firstNode, startOffset, endOffset - startOffset, text,
                    TRUE),
         firstNode, text)

\* The last node, spliced (lines 1240-1241): [d, lastNode, keep].
insertTextLastSpliced(d, lastNode, endOffset, keep) ==
  [ d |-> spliceText(d, lastNode, 0, endOffset, << >>, FALSE),
    lastNode |-> lastNode,
    keep |-> keep \cup { lastNode } ]

\* "Handle mutations to the last node" (lines 1226-1249): [d, lastNode, keep].
insertTextLast(d, lastNode, end, endOffset, keep) ==
  IF d.err # "" THEN [ d |-> d, lastNode |-> lastNode, keep |-> keep ]
  ELSE IF \/ /\ d.sel[end].type = "text"
             /\ (endOffset # 0 \/ getTextContent(d, lastNode) = << >>)
          \/ /\ d.sel[end].type = "block"
             /\ getIndexWithinParent(d, lastNode) < endOffset
    THEN IF /\ isTextNode(d, lastNode)
            /\ ~ isImmutableOrInert(d, lastNode)
            /\ endOffset # getTextContentSize(d, lastNode)
           THEN IF isSegmented(d, lastNode)
                  THEN insertTextLastSpliced(
                         replace(createTextNode(d, getTextContent(d, lastNode)),
                                 lastNode, NextKey(d)),
                         NextKey(d), endOffset, keep)
                  ELSE insertTextLastSpliced(d, lastNode, endOffset, keep)
           ELSE [ d |-> remove(d, lastNode), lastNode |-> lastNode,
                  keep |-> keep ]
  ELSE [ d |-> d, lastNode |-> lastNode, keep |-> keep \cup { lastNode } ]

\* A variant of the walk over the children of the last block that goes from
\* the first child to the last.
RECURSIVE insertTextMoveChildrenForward(_, _, _, _, _, _, _)
insertTextMoveChildrenForward(d, children, i, firstNode, lastNode, selected, sameBlock) ==
  IF d.err # "" \/ i < 1 \/ children[Len(children) + 1 - i] = firstNode THEN d
  ELSE insertTextMoveChildrenForward(
         IF ~ isAttached(d, children[Len(children) + 1 - i]) THEN d
         ELSE IF \/ children[Len(children) + 1 - i] \notin selected
                 \/ children[Len(children) + 1 - i] = lastNode
           THEN IF sameBlock THEN d
                ELSE insertAfter(d, firstNode, children[Len(children) + 1 - i])
         ELSE remove(d, children[Len(children) + 1 - i]),
         children, i - 1, firstNode, lastNode, selected, sameBlock)

\* The walk over the children of the last block (lines 1254-1277).
RECURSIVE insertTextMoveChildren(_, _, _, _, _, _, _)
insertTextMoveChildren(d, children, i, firstNode, lastNode, selected, sameBlock) ==
  IF d.err # "" \/ i < 1 \/ children[i] = firstNode THEN d
  ELSE insertTextMoveChildren(
         IF ~ isAttached(d, children[i]) THEN d
         ELSE IF children[i] \notin selected \/ children[i] = lastNode
           THEN IF sameBlock THEN d
                ELSE insertAfter(d, firstNode, children[i])
         ELSE remove(d, children[i]),
         children, i - 1, firstNode, lastNode, selected, sameBlock)

\* A parent that is empty, or whose last child was unmarked, is gone.
ParentGone(d, parent, lastRemovedParent) ==
  \/ d.nodes[parent].children = << >>
  \/ d.nodes[parent].children[Len(d.nodes[parent].children)]
       = lastRemovedParent

\* The walk up from the last block (lines 1279-1297): the kept keys.
RECURSIVE insertTextUnkeepParents(_, _, _, _, _)
insertTextUnkeepParents(d, parent, lastRemovedParent, keep, fuel) ==
  IF parent = NULL \/ fuel = 0 THEN keep
  ELSE insertTextUnkeepParents(
         d, d.nodes[parent].parent,
         IF ParentGone(d, parent, lastRemovedParent) THEN parent
         ELSE lastRemovedParent,
         IF ParentGone(d, parent, lastRemovedParent) THEN keep \ { parent }
         ELSE keep,
         fuel - 1)

\* "Remove all selected nodes that haven't already been removed".
RECURSIVE insertTextRemoveSelected(_, _, _, _)
insertTextRemoveSelected(d, selectedNodes, i, keep) ==
  IF d.err # "" \/ i > Len(selectedNodes) THEN d
  ELSE insertTextRemoveSelected(
         IF selectedNodes[i] \in keep THEN d ELSE remove(d, selectedNodes[i]),
         selectedNodes, i + 1, keep)

\* A variant of the splice into the first leaf that does not look at the
\* mode of the leaf.
insertTextFirstSpliced(d, firstNode, startOffset, firstNodeTextLength, text) ==
  insertTextSpliced(
    spliceText(d, firstNode, startOffset, firstNodeTextLength - startOffset,
               text, TRUE),
    firstNode, text)

\* Splicing the text into the first leaf (lines 1299-1318).
insertTextFirst(d, firstNode, startOffset, firstNodeTextLength, text) ==
  IF d.err # "" THEN d
  ELSE IF ~ isImmutableOrInert(d, firstNode)
    THEN insertTextSpliced(
           spliceText(d, firstNode, startOffset,
                      firstNodeTextLength - startOffset, text, TRUE),
           firstNode, text)
  ELSE IF startOffset = firstNodeTextLength
    THEN select(d, firstNode, Undef, Undef)
  ELSE remove(d, firstNode)

\* The end of the branch for several nodes (lines 1279-1326): d is the
\* document after the children of the last block were moved.
insertTextFinish(d, keep, firstNode, selectedNodes, startOffset, firstNodeTextLength, text, sameBlock, lastBlock) ==
  insertTextRemoveSelected(
    insertTextFirst(d, firstNode, startOffset, firstNodeTextLength, text),
    selectedNodes, 2,
    IF sameBlock \/ d.err # "" THEN keep
    ELSE insertTextUnkeepParents(d, lastBlock, NULL, keep, Len(d.nodes)))

\* The walk over the children of the last block and what follows it (lines
\* 1251-1326): l is the result of the handling of the last node.
insertTextMove(l, firstNode, selectedNodes, startOffset, firstNodeTextLength, text, sameBlock, lastBlock) ==
  insertTextFinish(
    insertTextMoveChildren(l.d, l.d.nodes[lastBlock].children,
                           Len(l.d.nodes[lastBlock].children), firstNode,
                           l.lastNode, SeqToSet(selectedNodes), sameBlock),
    l.keep, firstNode, selectedNodes, startOffset, firstNodeTextLength, text,
    sameBlock, lastBlock)

\* The block of a node: itself when it is a block, else its parent.
BlockOf(d, k) == IF isBlockNode(d, k) THEN k ELSE d.nodes[k].parent

\* Lines 1213-1249: firstBlock and lastBlock are the blocks of the first and
\* of the last selected node (getParentOrThrow).
insertTextBlocks(d, firstNode, lastNode, selectedNodes, end, startOffset, endOffset, firstNodeTextLength, text, firstBlock, lastBlock) ==
  IF firstBlock = NULL \/ lastBlock = NULL
    THEN Throw(d, "Expected node to have a parent")
  ELSE insertTextMove(
         insertTextLast(d, lastNode, end, endOffset,
                        getParentKeys(d, firstNode)
                          \cup getParentKeys(d, lastNode)),
         firstNode, selectedNodes, startOffset, firstNodeTextLength, text,
         firstBlock = lastBlock, lastBlock)

\* The branch for several selected nodes (lines 1212-1326).
insertTextMulti(d, firstNode, selectedNodes, end, startOffset, endOffset, firstNodeTextLength, text) ==
  IF d.err # "" THEN d
  ELSE insertTextBlocks(d, firstNode, selectedNodes[Len(selectedNodes)],
                        selectedNodes, end, startOffset, endOffset,
                        firstNodeTextLength, text, BlockOf(d, firstNode),
                        BlockOf(d, selectedNodes[Len(selectedNodes)]))

\* Lines 1185-1326, firstNode being the leaf the text goes into.
insertTextInto(d, text, end, selectedNodes, firstNode, startOffset, endOffset, firstNodeTextLength, textFormat) ==
  IF Len(selectedNodes) = 1
    THEN insertTextSingle(d, firstNode, startOffset, endOffset, text,
                          textFormat)
    ELSE insertTextMulti(d, firstNode, selectedNodes, end, startOffset,
                         endOffset, firstNodeTextLength, text)

\* Which branch of lines 1146-1183 is taken for the first node.
insertTextKind(d, firstNode, offset, firstNodeTextLength) ==
  IF ~ (\/ isSegmented(d, firstNode)
        \/ isImmutable(d, firstNode)
        \/ ~ canInsertTextAtEnd(d, firstNode)) THEN "plain"
  ELSE IF isCollapsed(d) /\ offset = firstNodeTextLength THEN "end"
  ELSE IF isCollapsed(d) /\ offset = 0 THEN "start"
  ELSE IF isSegmented(d, firstNode) /\ offset # firstNodeTextLength
    THEN "unsegment"
  ELSE "plain"

\* The sibling the selection is moved to, or the key of the text node that
\* is created when the sibling cannot take the text (lines 1152-1158).
insertTextSibling(d, sibling) ==
  IF \/ ~ isTextNode(d, sibling)
     \/ isImmutableOrInert(d, sibling)
     \/ isSegmented(d, sibling)
    THEN NextKey(d) ELSE sibling

\* The node firstNode becomes (lines 1147-1182).
insertTextTarget(d, firstNode, kind) ==
  IF kind = "plain" THEN firstNode
  ELSE IF kind = "unsegment" THEN NextKey(d)
  ELSE IF kind = "end" THEN insertTextSibling(d, getNextSibling(d, firstNode))
  ELSE insertTextSibling(d, getPreviousSibling(d, firstNode))

\* The document after lines 1146-1183, target being what firstNode becomes: a
\* key that is not in the document yet is the key of a node to create.
insertTextRetarget(d, firstNode, kind, target) ==
  IF kind = "plain" THEN d
  ELSE IF kind = "unsegment"
    THEN replace(createTextNode(d, getTextContent(d, firstNode)), firstNode,
                 target)
  ELSE IF kind = "end"
    THEN select(IF HasNode(d, target) THEN d
                ELSE insertAfter(createTextNode(d, << >>), firstNode, target),
                target, 0, 0)
  ELSE select(IF HasNode(d, target) THEN d
              ELSE insertBefore(createTextNode(d, << >>), firstNode, target),
              target, Undef, Undef)

MaxRetry == 4

RECURSIVE insertTextRec(_, _, _)
\* Lines 1160-1163 and 1174-1177: with a text to insert, insertText starts
\* again once the selection was moved to the sibling.
insertTextAgain(d, text, fuel, kind, end, selectedNodes, firstNode, startOffset, endOffset, firstNodeTextLength, textFormat) ==
  IF d.err # "" THEN d
  ELSE IF kind \in { "end", "start" } /\ text # << >>
    THEN IF fuel = 0 THEN Throw(d, "Maximum call stack size exceeded")
         ELSE insertTextRec(d, text, fuel - 1)
  ELSE insertTextInto(d, text, end, selectedNodes, firstNode, startOffset,
                      endOffset, firstNodeTextLength, textFormat)

\* Lines 1131-1183: firstNode becomes the node of the branch taken, while
\* startOffset and endOffset stay the offsets read on line 1131.
insertTextCase(d, text, fuel, kind, end, selectedNodes, firstNode, startOffset, endOffset, firstNodeTextLength) ==
  insertTextAgain(
    insertTextRetarget(d, firstNode, kind, insertTextTarget(d, firstNode, kind)),
    text, fuel, kind, end, selectedNodes,
    insertTextTarget(d, firstNode, kind),
    startOffset, endOffset, firstNodeTextLength, d.sel.textFormat)

\* Lines 1128-1145, gn being the result of getNodes.
insertTextNodes(d, text, fuel, end, gn, startOffset, endOffset) ==
  IF gn.err THEN Throw(d, "getNodesBetween: ancestor is null")
  ELSE IF gn.nodes = << >> \/ ~ isTextNode(d, gn.nodes[1])
    THEN Throw(d, "insertText: first node is not a text node")
  ELSE insertTextCase(d, text, fuel,
                      insertTextKind(d, gn.nodes[1], startOffset,
                                     getTextContentSize(d, gn.nodes[1])),
                      end, gn.nodes, gn.nodes[1], startOffset, endOffset,
                      getTextContentSize(d, gn.nodes[1]))

\* Lines 1128-1133: d is the document after the starting point was made a
\* text point.
insertTextStart(d, text, fuel, first, end) ==
  IF d.err # "" THEN d
  ELSE insertTextNodes(d, text, fuel, end, getNodes(d), d.sel[first].offset,
                       d.sel[end].offset)

\* Lines 1119-1127, order being the order of the anchor and the focus.
insertTextOrdered(d, text, fuel, order) ==
  IF order = "throw" THEN Throw(d, "Expected node to have a parent")
  ELSE insertTextStart(
         IF d.sel[IF order = "before" THEN "anchor" ELSE "focus"].type = "block"
           THEN transferStartingBlockPointToTextPoint(
                  d, IF order = "before" THEN "anchor" ELSE "focus",
                  IF order = "before" THEN "focus" ELSE "anchor")
           ELSE d,
         text, fuel,
         IF order = "before" THEN "anchor" ELSE "focus",
         IF order = "before" THEN "focus" ELSE "anchor")

insertTextRec(d, text, fuel) ==
  IF d.err # "" THEN d
  ELSE insertTextOrdered(d, text, fuel,
                         IF isCollapsed(d) THEN "before"
                         ELSE PointOrder(d, d.sel.anchor, d.sel.focus))

insertText(d, text) == insertTextRec(d, text, MaxRetry)

removeText(d) == insertText(d, << >>)


\* ------------------------------------------------- formatText, patchStyleText
TEXT_TYPE_TO_FORMAT == [ bold |-> 1, italic |-> 2 ]

HasFlag(format, flag) == (format \div flag) % 2 = 1

\* toggleTextFormatType for the flag activeFormat; Undef stands for null.
ToggleFlag(format, activeFormat, alignWithFormat) ==
  IF /\ HasFlag(format, activeFormat)
     /\ (alignWithFormat = Undef \/ ~ HasFlag(alignWithFormat, activeFormat))
    THEN format - activeFormat
  ELSE IF alignWithFormat = Undef \/ HasFlag(alignWithFormat, activeFormat)
    THEN IF HasFlag(format, activeFormat) THEN format
         ELSE format + activeFormat
  ELSE format

toggleTextFormatType(format, type, alignWithFormat) ==
  ToggleFlag(format, TEXT_TYPE_TO_FORMAT[type], alignWithFormat)

getTextNodeFormat(d, k, type, alignWithFormat) ==
  toggleTextFormatType(getFormat(d, k), type, alignWithFormat)

\* A style string is the sequence of its << property, value >> declarations.
\* cssToStyles.get(css) || null, as [found, styles].
getStyleObjectFromCSS(d, css) ==
  [ found |-> css \in d.css, styles |-> IF css \in d.css THEN css ELSE << >> ]

StyleKeys(styles) == { styles[i][1] : i \in 1 .. Len(styles) }

\* The value the patch gives the property key (its last declaration).
PatchValue(patch, key) ==
  patch[CHOOSE i \in 1 .. Len(patch) :
          /\ patch[i][1] = key
          /\ \A j \in (i + 1) .. Len(patch) : patch[j][1] # key][2]

\* The declarations of the patch, from the i-th on, for properties that prev
\* does not have.
RECURSIVE PatchAdded(_, _, _)
PatchAdded(prev, patch, i) ==
  IF i > Len(patch) THEN << >>
  ELSE (IF /\ patch[i][1] \notin StyleKeys(prev)
           /\ \A j \in 1 .. (i - 1) : patch[j][1] # patch[i][1]
          THEN << << patch[i][1], PatchValue(patch, patch[i][1]) >> >>
          ELSE << >>) \o PatchAdded(prev, patch, i + 1)

\* {...prevStyles, ...patch}
MergeStyles(prev, patch) ==
  [ i \in 1 .. Len(prev) |->
      IF prev[i][1] \in StyleKeys(patch)
        THEN << prev[i][1], PatchValue(patch, prev[i][1]) >>
        ELSE prev[i] ] \o PatchAdded(prev, patch, 1)

getCSSFromStyleObject(styles) ==
  SelectSeq(styles, LAMBDA decl : decl[1] # "")

\* node.setStyle(newCSSText); cssToStyles.set(newCSSText, newStyles)
SetStyleOf(d, k, newCSSText) ==
  IF d.err # "" THEN d ELSE [ d EXCEPT !.css = @ \cup { newCSSText } ]

\* The styles of patchNodeStyle, prevStyles being the cached style object.
NewStyles(prevStyles, patch) ==
  IF prevStyles.found THEN MergeStyles(prevStyles.styles, patch) ELSE patch

patchNodeStyle(d, k, patch) ==
  IF d.err # "" THEN d
  ELSE IF ~ isTextNode(d, k) THEN Throw(d, "node is undefined")
  ELSE SetStyleOf(
         setStyle(d, k,
                  getCSSFromStyleObject(
                    NewStyles(getStyleObjectFromCSS(d, getStyle(d, k)), patch))),
         k,
         getCSSFromStyleObject(
           NewStyles(getStyleObjectFromCSS(d, getStyle(d, k)), patch)))

\* What formatText does to one leaf of the range (undefined leaf: TypeError).
FormatNode(d, k, format) ==
  IF d.err # "" THEN d
  ELSE IF ~ isTextNode(d, k) THEN Throw(d, "node is undefined")
  ELSE setFormat(d, k, format)

NthOrNull(s, i) == IF i \in 1 .. Len(s) THEN s[i] ELSE NULL

\* The format of the first text node of the selected nodes, toggled (lines
\* 412-419).
FirstNextFormat(d, selectedNodes, formatType) ==
  IF \A i \in 1 .. Len(selectedNodes) : ~ isTextNode(d, selectedNodes[i])
    THEN 0
    ELSE getTextNodeFormat(
           d,
           selectedNodes[CHOOSE i \in 1 .. Len(selectedNodes) :
                           /\ isTextNode(d, selectedNodes[i])
                           /\ \A j \in 1 .. (i - 1) :
                                ~ isTextNode(d, selectedNodes[j])],
           formatType, Undef)

RECURSIVE formatTextMiddle(_, _, _, _, _, _, _)
\* "deal with all the nodes in between" (lines 490-505).
formatTextMiddle(d, selectedNodes, i, firstNode, lastNode, formatType, run) ==
  IF d.err # "" \/ i >= Len(selectedNodes) THEN d
  ELSE formatTextMiddle(
         IF /\ isTextNode(d, selectedNodes[i])
            /\ selectedNodes[i] # firstNode
            /\ selectedNodes[i] # lastNode
            /\ ~ isImmutable(d, selectedNodes[i])
           THEN FormatNode(d, selectedNodes[i],
                           getTextNodeFormat(d, selectedNodes[i], formatType, run))
           ELSE d,
         selectedNodes, i + 1, firstNode, lastNode, formatType, run)

\* The part of a split node that is selected: [d, node].
formatTextPart(sp, i, formatType, format) ==
  [ d |-> FormatNode(sp.d, NthOrNull(sp.r, i), format), node |-> NthOrNull(sp.r, i) ]

\* The last node of a range of several nodes (lines 478-488): [d, node].
formatTextLast(d, lastNode, endOffset, formatType, format) ==
  IF d.err # "" \/ ~ isTextNode(d, lastNode)
    THEN [ d |-> d, node |-> lastNode ]
  ELSE IF endOffset # getTextContentSize(d, lastNode)
    THEN formatTextPart(splitText(d, lastNode, { endOffset }), 1, formatType, format)
  ELSE [ d |-> FormatNode(d, lastNode, format), node |-> lastNode ]

\* The first node of a range of several nodes (lines 468-475): [d, node].
formatTextFirst(d, firstNode, startOffset, formatType, format) ==
  IF ~ isTextNode(d, firstNode) THEN [ d |-> d, node |-> firstNode ]
  ELSE IF startOffset # 0
    THEN formatTextPart(splitText(d, firstNode, { startOffset }), 2, formatType, format)
  ELSE [ d |-> FormatNode(d, firstNode, format), node |-> firstNode ]

\* The nodes in between, l being the result for the last node.
formatTextBetween(l, selectedNodes, firstNode, formatType, run) ==
  formatTextMiddle(l.d, selectedNodes, 2, firstNode, l.node, formatType, run)

\* The last node and the nodes in between, f being the result for the first
\* node and lastNext the format of the last node.
formatTextRest(f, selectedNodes, lastNode, endOffset, formatType, lastNext) ==
  formatTextBetween(formatTextLast(f.d, lastNode, endOffset, formatType, lastNext),
    selectedNodes, f.node, formatType, lastNext)

\* "multiple nodes selected" (lines 466-506).
formatTextMulti(f, selectedNodes, lastNode, endOffset, formatType, first) ==
  formatTextRest(f, selectedNodes, lastNode, endOffset, formatType,
    IF f.d.err = "" /\ isTextNode(f.d, lastNode)
      THEN getTextNodeFormat(f.d, lastNode, formatType, first)
      ELSE first)

\* The selected part of a single node (lines 457-461).
formatTextSelected(p, length) == select(p.d, p.node, 0, length)

\* "This is the case where we only selected a single node" (lines 444-464).
formatTextOne(d, firstNode, startOffset, endOffset, firstNodeTextLength, formatType, format) ==
  IF startOffset = endOffset THEN d
  ELSE IF startOffset = 0 /\ endOffset = firstNodeTextLength
    THEN select(FormatNode(d, firstNode, format), firstNode, startOffset, endOffset)
  ELSE formatTextSelected(
         formatTextPart(splitText(d, firstNode, { startOffset, endOffset }),
                 IF startOffset = 0 THEN 1 ELSE 2, formatType, format),
         endOffset - startOffset)

\* Lines 442-506: one selected node, or several.
formatTextApply(d, formatType, selectedNodes, firstNode, lastNode, anchorOffset, focusOffset, startOffset, endOffset, firstNodeTextLength, first) ==
  IF firstNode = lastNode
    THEN IF ~ isTextNode(d, firstNode) THEN d
         ELSE formatTextOne(d, firstNode, Min(anchorOffset, focusOffset),
                Max(anchorOffset, focusOffset), firstNodeTextLength, formatType, first)
    ELSE formatTextMulti(formatTextFirst(d, firstNode, startOffset, formatType, first),
           selectedNodes, lastNode, endOffset, formatType, first)

\* "the user only selected the very end of the first node" (lines 429-441):
\* shift tells whether the next sibling becomes the first node.
formatTextShift(d, formatType, selectedNodes, firstNode, lastNode, startOffset, endOffset, shift) ==
  formatTextApply(d, formatType, selectedNodes,
    IF shift THEN getNextSibling(d, firstNode) ELSE firstNode, lastNode,
    IF shift THEN 0 ELSE d.sel.anchor.offset, d.sel.focus.offset,
    IF shift THEN 0 ELSE startOffset, endOffset,
    getTextContentSize(d, firstNode),
    IF shift THEN getTextNodeFormat(d, getNextSibling(d, firstNode), formatType,
                                    Undef)
    ELSE FirstNextFormat(d, selectedNodes, formatType))

\* Lines 410-427, order being the order of the anchor and the focus.
formatTextOrdered(d, formatType, selectedNodes, order) ==
  IF order = "throw" THEN Throw(d, "Expected node to have a parent")
  ELSE formatTextShift(d, formatType, selectedNodes, selectedNodes[1],
         selectedNodes[Len(selectedNodes)],
         IF order = "before" THEN d.sel.anchor.offset ELSE d.sel.focus.offset,
         IF order = "before" THEN d.sel.focus.offset ELSE d.sel.anchor.offset,
         /\ (IF order = "before" THEN d.sel.anchor.offset
             ELSE d.sel.focus.offset)
              = getTextContentSize(d, selectedNodes[1])
         /\ isTextNode(d, getNextSibling(d, selectedNodes[1])))

\* A formatText that sets the pending format bit of a collapsed selection
\* where the code toggles it.
formatTextNodesSets(d, formatType, gn) ==
  IF gn.err THEN Throw(d, "getNodesBetween: ancestor is null")
  ELSE IF isCollapsed(d)
    THEN [ d EXCEPT !.sel.textFormat =
                      IF HasFlag(@, TEXT_TYPE_TO_FORMAT[formatType]) THEN @
                      ELSE @ + TEXT_TYPE_TO_FORMAT[formatType],
                    !.sel.dirty = TRUE ]
  ELSE IF gn.nodes = << >> THEN Throw(d, "firstNode is undefined")
  ELSE formatTextOrdered(d, formatType, gn.nodes,
                  PointOrder(d, d.sel.anchor, d.sel.focus))

\* gn is the result of selection.getNodes().
formatTextNodes(d, formatType, gn) ==
  IF gn.err THEN Throw(d, "getNodesBetween: ancestor is null")
  ELSE IF isCollapsed(d) THEN [ d EXCEPT !.sel.textFormat = toggleTextFormatType(@, formatType, Undef),
                                      !.sel.dirty = TRUE ]
  ELSE IF gn.nodes = << >> THEN Throw(d, "firstNode is undefined")
  ELSE formatTextOrdered(d, formatType, gn.nodes,
                  PointOrder(d, d.sel.anchor, d.sel.focus))

formatText(d, formatType) == IF d.err # "" THEN d ELSE formatTextNodes(d, formatType, getNodes(d))

RECURSIVE patchStyleTextMiddle(_, _, _, _, _, _, _)
\* "style all the text nodes in between" (lines 336-349).
patchStyleTextMiddle(d, selectedNodes, i, firstNode, lastNode, patch, run) ==
  IF d.err # "" \/ i >= Len(selectedNodes) THEN d
  ELSE patchStyleTextMiddle(
         IF /\ isTextNode(d, selectedNodes[i])
            /\ selectedNodes[i] # firstNode
            /\ selectedNodes[i] # lastNode
            /\ ~ isImmutable(d, selectedNodes[i])
           THEN patchNodeStyle(d, selectedNodes[i], patch)
           ELSE d,
         selectedNodes, i + 1, firstNode, lastNode, patch, run)

\* The part of a split node that is selected: [d, node].
patchStyleTextPart(sp, i, patch, format) ==
  [ d |-> patchNodeStyle(sp.d, NthOrNull(sp.r, i), patch), node |-> NthOrNull(sp.r, i) ]

\* The last node of a range of several nodes (lines 326-334): [d, node].
patchStyleTextLast(d, lastNode, endOffset, patch, format) ==
  IF d.err # "" \/ ~ isTextNode(d, lastNode)
    THEN [ d |-> d, node |-> lastNode ]
  ELSE IF endOffset # getTextContentSize(d, lastNode)
    THEN patchStyleTextPart(splitText(d, lastNode, { endOffset }), 1, patch, format)
  ELSE [ d |-> patchNodeStyle(d, lastNode, patch), node |-> lastNode ]

\* The first node of a range of several nodes (lines 317-324): [d, node].
patchStyleTextFirst(d, firstNode, startOffset, patch, format) ==
  IF ~ isTextNode(d, firstNode) THEN [ d |-> d, node |-> firstNode ]
  ELSE IF startOffset # 0
    THEN patchStyleTextPart(splitText(d, firstNode, { startOffset }), 2, patch, format)
  ELSE [ d |-> patchNodeStyle(d, firstNode, patch), node |-> firstNode ]

\* The nodes in between, l being the result for the last node.
patchStyleTextBetween(l, selectedNodes, firstNode, patch, run) ==
  patchStyleTextMiddle(l.d, selectedNodes, 2, firstNode, l.node, patch, run)

\* The last node and the nodes in between, f being the result for the first
\* node and lastNext the format of the last node.
patchStyleTextRest(f, selectedNodes, lastNode, endOffset, patch, lastNext) ==
  patchStyleTextBetween(patchStyleTextLast(f.d, lastNode, endOffset, patch, lastNext),
    selectedNodes, f.node, patch, lastNext)

\* "multiple nodes selected" (lines 315-350).
patchStyleTextMulti(f, selectedNodes, lastNode, endOffset, patch, first) ==
  patchStyleTextRest(f, selectedNodes, lastNode, endOffset, patch,
    0)

\* The selected part of a single node (lines 306-311).
patchStyleTextSelected(p, length) == select(p.d, p.node, 0, length)

\* "This is the case where we only selected a single node" (lines 294-313).
patchStyleTextOne(d, firstNode, startOffset, endOffset, firstNodeTextLength, patch, format) ==
  IF startOffset = endOffset THEN d
  ELSE IF startOffset = 0 /\ endOffset = firstNodeTextLength
    THEN select(patchNodeStyle(d, firstNode, patch), firstNode, startOffset, endOffset)
  ELSE patchStyleTextSelected(
         patchStyleTextPart(splitText(d, firstNode, { startOffset, endOffset }),
                 IF startOffset = 0 THEN 1 ELSE 2, patch, format),
         endOffset - startOffset)

\* Lines 292-350: one selected node, or several.
patchStyleTextApply(d, patch, selectedNodes, firstNode, lastNode, anchorOffset, focusOffset, startOffset, endOffset, firstNodeTextLength, first) ==
  IF firstNode = lastNode
    THEN IF ~ isTextNode(d, firstNode) THEN d
         ELSE patchStyleTextOne(d, firstNode, Min(anchorOffset, focusOffset),
                Max(anchorOffset, focusOffset), firstNodeTextLength, patch, first)
    ELSE patchStyleTextMulti(patchStyleTextFirst(d, firstNode, startOffset, patch, first),
           selectedNodes, lastNode, endOffset, patch, first)

\* "the user only selected the very end of the first node" (lines 281-291):
\* shift tells whether the next sibling becomes the first node.
patchStyleTextShift(d, patch, selectedNodes, firstNode, lastNode, startOffset, endOffset, shift) ==
  patchStyleTextApply(d, patch, selectedNodes,
    IF shift THEN getNextSibling(d, firstNode) ELSE firstNode, lastNode,
    IF shift THEN 0 ELSE d.sel.anchor.offset, d.sel.focus.offset,
    IF shift THEN 0 ELSE startOffset, endOffset,
    getTextContentSize(d, firstNode),
    0)

\* Lines 266-279, order being the order of the anchor and the focus.
patchStyleTextOrdered(d, patch, selectedNodes, order) ==
  IF order = "throw" THEN Throw(d, "Expected node to have a parent")
  ELSE patchStyleTextShift(d, patch, selectedNodes, selectedNodes[1],
         selectedNodes[Len(selectedNodes)],
         IF order = "before" THEN d.sel.anchor.offset ELSE d.sel.focus.offset,
         IF order = "before" THEN d.sel.focus.offset ELSE d.sel.anchor.offset,
         /\ (IF order = "before" THEN d.sel.anchor.offset
             ELSE d.sel.focus.offset)
              = getTextContentSize(d, selectedNodes[1])
         /\ isTextNode(d, getNextSibling(d, selectedNodes[1])))

\* gn is the result of selection.getNodes().
patchStyleTextNodes(d, patch, gn) ==
  IF gn.err THEN Throw(d, "getNodesBetween: ancestor is null")
  ELSE IF isCollapsed(d) THEN d
  ELSE IF gn.nodes = << >> THEN Throw(d, "firstNode is undefined")
  ELSE patchStyleTextOrdered(d, patch, gn.nodes,
                  PointOrder(d, d.sel.anchor, d.sel.focus))

patchStyleText(d, patch) == IF d.err # "" THEN d ELSE patchStyleTextNodes(d, patch, getNodes(d))

\* ---------------------------------- insertNodes, insertLineBreak, insertParagraph
canReplaceWith(d, k, n) == TRUE

canBeEmpty(d, k) == ~ isRootNode(d, k)

RECURSIVE AppendEach(_, _, _, _)
AppendEach(d, target, children, s) ==
  IF d.err # "" \/ s > Len(children) THEN d
  ELSE AppendEach(append(d, target, << children[s] >>), target, children, s + 1)

RECURSIVE InsertEachAfter(_, _, _, _)
InsertEachAfter(d, target, children, s) ==
  IF d.err # "" \/ s < 1 THEN d
  ELSE InsertEachAfter(insertAfter(d, target, children[s]), target, children, s - 1)

\* What the first half of one round of the loop hands to the second half:
\* the document, the target and whether the round ends there ("continue").
Merged(d, target, continue) ==
  [ d |-> d, target |-> target, continue |-> continue ]

\* "if (isTextNode(target)) target = topLevelBlock" (lines 956-958).
Retarget(d, target, topLevelBlock) ==
  Merged(d, IF isTextNode(d, target) THEN topLevelBlock ELSE target, FALSE)

\* Lines 952-955, d being the document after block.remove().
insertNodesPlucked(d, node, block, target, parent, topLevelBlock) ==
  IF d.err # "" THEN Merged(d, target, TRUE)
  ELSE IF block = node THEN Merged(d, parent, TRUE)
  ELSE Retarget(d, parent, topLevelBlock)

\* Lines 950-952, d being the document after the children of block were
\* moved and parent the target the round goes on with.
insertNodesRemoveBlock(d, node, block, target, parent, topLevelBlock) ==
  insertNodesPlucked(IF parent = NULL
                       THEN Throw(d, "Expected node to have a parent")
                       ELSE remove(d, block),
                     node, block, target, parent, topLevelBlock)

\* Lines 941-951, d being the document after the children of block were moved.
insertNodesMoved(d, node, block, target, topLevelBlock) ==
  insertNodesRemoveBlock(d, node, block, target,
                         IF isBlockNode(d, target) THEN target
                         ELSE d.nodes[target].parent,
                         topLevelBlock)

\* Lines 936-955: the children of the block of the first descendant go to
\* the target.
insertNodesPluck(d, node, block, target, topLevelBlock) ==
  insertNodesMoved(IF isBlockNode(d, target)
                     THEN AppendEach(d, target, d.nodes[block].children, 1)
                     ELSE InsertEachAfter(d, target, d.nodes[block].children,
                                          Len(d.nodes[block].children)),
                   node, block, target, topLevelBlock)

\* Lines 935-956, firstDescendant being the first descendant of node.
insertNodesDescendant(d, node, target, topLevelBlock, firstDescendant) ==
  IF ~ isLeafNode(d, firstDescendant) THEN Retarget(d, target, topLevelBlock)
  ELSE insertNodesPluck(d, node, d.nodes[firstDescendant].parent, target,
                        topLevelBlock)

\* The first half of one round of the loop (lines 905-959), for a block node:
\* [d, target, continue].
insertNodesMerge(d, node, firstNode, target, topLevelBlock) ==
  IF node # firstNode THEN Retarget(d, target, topLevelBlock)
  ELSE IF isBlockNode(d, target) /\ isEmpty(d, target)
            /\ canReplaceWith(d, target, node)
    THEN Merged(replace(d, target, node), node, TRUE)
  ELSE insertNodesDescendant(d, node, target, topLevelBlock,
                             getFirstDescendant(d, node))

RECURSIVE insertNodesLoop(_, _, _, _, _, _)
\* The second half of one round (lines 960-982), and the rounds after it.
insertNodesPlace(d, nodes, i, target, topLevelBlock, fuel) ==
  IF isBlockNode(d, target) /\ ~ isBlockNode(d, nodes[i])
    THEN insertNodesLoop(
           IF getFirstChild(d, target) # NULL
             THEN insertBefore(d, getFirstChild(d, target), nodes[i])
             ELSE append(d, target, << nodes[i] >>),
           nodes, i + 1, nodes[i], topLevelBlock, fuel - 1)
  ELSE IF isBlockNode(d, target)
    THEN IF ~ canBeEmpty(d, nodes[i]) /\ isEmpty(d, nodes[i])
           THEN insertNodesLoop(d, nodes, i + 1, target, topLevelBlock, fuel - 1)
           ELSE insertNodesLoop(insertAfter(d, target, nodes[i]), nodes, i + 1,
                                nodes[i], topLevelBlock, fuel - 1)
  ELSE IF ~ isBlockNode(d, nodes[i])
    THEN insertNodesLoop(insertAfter(d, target, nodes[i]), nodes, i + 1,
                         nodes[i], topLevelBlock, fuel - 1)
  ELSE IF d.nodes[nodes[i]].parent = NULL
    THEN [ d |-> Throw(d, "Expected node to have a parent"),
           target |-> target ]
  ELSE insertNodesLoop(d, nodes, i, d.nodes[nodes[i]].parent, topLevelBlock,
                       fuel - 1)

\* One round of the loop, m being the result of its first half.
insertNodesRound(m, nodes, i, topLevelBlock, fuel) ==
  IF m.d.err # "" THEN [ d |-> m.d, target |-> m.target ]
  ELSE IF m.continue
    THEN insertNodesLoop(m.d, nodes, i + 1, m.target, topLevelBlock, fuel - 1)
  ELSE insertNodesPlace(m.d, nodes, i, m.target, topLevelBlock, fuel)

\* "Time to insert the nodes!" (lines 901-990): [d, target].
insertNodesLoop(d, nodes, i, target, topLevelBlock, fuel) ==
  IF d.err # "" \/ i > Len(nodes) THEN [ d |-> d, target |-> target ]
  ELSE IF fuel = 0
    THEN [ d |-> Throw(d, "insertNodes: no progress"), target |-> target ]
  ELSE insertNodesRound(
         IF isBlockNode(d, nodes[i])
           THEN insertNodesMerge(d, nodes[i], nodes[1], target, topLevelBlock)
           ELSE Merged(d, target, FALSE),
         nodes, i, topLevelBlock, fuel)

\* "Check if the prev parent is empty, as it might need removing" (lines
\* 1046-1054).
insertNodesPrevParent(d, prevParent) ==
  IF /\ d.err = ""
     /\ isBlockNode(d, prevParent)
     /\ isEmpty(d, prevParent)
     /\ ~ canBeEmpty(d, prevParent)
    THEN remove(d, prevParent) ELSE d

\* Re-attaching the trailing siblings (lines 1036-1057).
RECURSIVE insertNodesSiblings(_, _, _, _)
insertNodesSiblings(d, siblings, i, target) ==
  IF d.err # "" \/ i < 1 THEN d
  ELSE insertNodesSiblings(
         insertNodesPrevParent(
           IF ~ HasNode(d, siblings[i]) THEN Throw(d, "sibling is undefined")
           ELSE IF isBlockNode(d, target) /\ ~ isBlockNode(d, siblings[i])
             THEN append(d, target, << siblings[i] >>)
           ELSE insertAfter(d, target, siblings[i]),
           IF HasNode(d, siblings[i]) THEN d.nodes[siblings[i]].parent
           ELSE NULL),
         siblings, i - 1,
         IF isBlockNode(d, target) /\ ~ isBlockNode(d, siblings[i])
           THEN siblings[i] ELSE target)

\* "Handle moving selection to start for all nodes" (lines 992-1005).
insertNodesSelectStart(d, startingNode, target) ==
  IF d.err # "" THEN d
  ELSE IF isTextNode(d, startingNode) THEN select(d, startingNode, Undef, Undef)
  ELSE IF isTextNode(d, getPreviousSibling(d, target))
    THEN select(d, getPreviousSibling(d, target), Undef, Undef)
  ELSE IF d.nodes[target].parent = NULL
    THEN Throw(d, "Expected node to have a parent")
  ELSE select(d, d.nodes[target].parent, getIndexWithinParent(d, target),
              getIndexWithinParent(d, target))

\* "Handle moving selection to end for blocks" (lines 1008-1018), lastChild
\* being the last descendant of the target.
insertNodesSelectLast(d, target, lastChild) ==
  IF lastChild = NULL THEN select(d, target, Undef, Undef)
  ELSE IF isTextNode(d, lastChild) THEN select(d, lastChild, Undef, Undef)
  ELSE selectNext(d, lastChild, Undef, Undef)

\* "Handle moving selection to end" (lines 1007-1018 and 1059-1068).
insertNodesSelectEnd(d, target) ==
  IF d.err # "" THEN d
  ELSE IF isBlockNode(d, target)
    THEN insertNodesSelectLast(d, target, getLastDescendant(d, target))
  ELSE IF isTextNode(d, target) THEN select(d, target, Undef, Undef)
  ELSE IF d.nodes[target].parent = NULL
    THEN Throw(d, "Expected node to have a parent")
  ELSE select(d, d.nodes[target].parent, getIndexWithinParent(d, target) + 1,
              getIndexWithinParent(d, target) + 1)

\* The value insertNodes returns, with the document.
insertNodesDone(d) == Ret(d, d.err = "")

\* Lines 1007-1069, d being the document after the selection was moved.
insertNodesTail(d, target, siblings) ==
  insertNodesDone(IF d.err = "" /\ isBlockNode(d, target)
                    THEN insertNodesSiblings(d, siblings, Len(siblings), target)
                    ELSE d)

\* Lines 992-1069, lp being the result of the loop.
insertNodesSelect(lp, selectAtStart, startingNode, siblings) ==
  insertNodesTail(IF selectAtStart
                    THEN insertNodesSelectStart(lp.d, startingNode, lp.target)
                    ELSE insertNodesSelectEnd(lp.d, lp.target),
                  lp.target, siblings)

\* Lines 896-1069.
insertNodesInto(d, nodes, selectAtStart, target, siblings, topLevelBlock) ==
  insertNodesSelect(insertNodesLoop(d, nodes, 1, target, topLevelBlock,
                                    2 * Len(nodes) + 2),
                    selectAtStart, target, siblings)

\* Where the anchor is in its text node (lines 878-896), "none" when it is
\* not on a text node.
insertNodesKind(d, anchorNode, anchorOffset, textContentLength) ==
  IF ~ isTextNode(d, anchorNode) THEN "none"
  ELSE IF anchorOffset = 0 /\ textContentLength # 0 THEN "start"
  ELSE IF anchorOffset = textContentLength THEN "end"
  ELSE "inside"

\* The target before the text node is split (lines 867-888).
insertNodesTarget(d, anchorNode, anchorOffset, kind) ==
  IF kind = "start"
    THEN IF getPreviousSibling(d, anchorNode) # NULL
           THEN getPreviousSibling(d, anchorNode)
           ELSE d.nodes[anchorNode].parent
  ELSE IF /\ kind = "none"
          /\ d.sel.anchor.type = "block"
          /\ getChildAtIndex(d, anchorNode, anchorOffset - 1) # NULL
    THEN getChildAtIndex(d, anchorNode, anchorOffset - 1)
  ELSE anchorNode

\* Lines 889-1069, sp being the result of the split of the anchor node when
\* the anchor is inside it.
insertNodesSplit(sp, nodes, selectAtStart, anchorNode, kind, target, nextSiblings, topLevelBlock) ==
  insertNodesInto(sp.d, nodes, selectAtStart,
                  IF kind = "inside" THEN NthOrNull(sp.r, 1) ELSE target,
                  (IF kind = "start" THEN << anchorNode >>
                   ELSE IF kind = "inside" THEN << NthOrNull(sp.r, 2) >>
                   ELSE << >>) \o nextSiblings,
                  topLevelBlock)

\* Lines 867-896: the anchor node is split when the anchor is inside it.
insertNodesCase(d, nodes, selectAtStart, anchorNode, anchorOffset, kind, topLevelBlock) ==
  IF topLevelBlock = NULL
    THEN Ret(Throw(d, "Expected node to have a top parent block"), FALSE)
  ELSE IF kind = "inside" /\ isImmutableOrInert(d, anchorNode)
    THEN Ret(d, FALSE)
  ELSE insertNodesSplit(IF kind = "inside"
                          THEN splitText(d, anchorNode, { anchorOffset })
                          ELSE Ret(d, << >>),
                        nodes, selectAtStart, anchorNode, kind,
                        insertNodesTarget(d, anchorNode, anchorOffset, kind),
                        getNextSiblings(d, anchorNode), topLevelBlock)

\* Lines 865-1069, d being the document after the selected text was removed.
insertNodesAt(d, nodes, selectAtStart) ==
  IF d.err # "" THEN Ret(d, FALSE)
  ELSE IF d.sel.anchor.type = "block" /\ ~ isBlockNode(d, d.sel.anchor.key)
    THEN Ret(Throw(d, "getChildAtIndex is not a function"), FALSE)
  ELSE insertNodesCase(d, nodes, selectAtStart, d.sel.anchor.key,
                       d.sel.anchor.offset,
                       insertNodesKind(d, d.sel.anchor.key, d.sel.anchor.offset,
                                       getTextContentSize(d, d.sel.anchor.key)),
                       getTopParentBlock(d, d.sel.anchor.key))

\* insertNodes(selection, nodes, selectStart): Ret(d, returned boolean).
insertNodes(d, nodes, selectAtStart) ==
  insertNodesAt(IF d.err = "" /\ ~ isCollapsed(d) THEN removeText(d) ELSE d,
                nodes, selectAtStart)

\* Lines 850-852, ins being the result of insertNodes.
insertLineBreakDone(ins, lineBreakNode, selectAtStart) ==
  IF selectAtStart \/ ~ ins.r THEN ins.d
  ELSE selectNext(ins.d, lineBreakNode, 0, 0)

insertLineBreak(d, selectAtStart) ==
  IF d.err # "" THEN d
  ELSE insertLineBreakDone(
         insertNodes(createLineBreakNode(d), << NextKey(d) >>, selectAtStart),
         NextKey(d), selectAtStart)

createParagraphNode(d) == createNode(d, "paragraph", << >>)

\* ParagraphNode.insertNewAfter creates a paragraph after the block; the base
\* BlockNode.insertNewAfter returns null.
insertNewAfter(d, block) ==
  IF d.err # "" THEN Ret(d, NULL)
  ELSE IF d.nodes[block].type = "paragraph"
    THEN Ret(insertAfter(createParagraphNode(d), block, NextKey(d)),
             NextKey(d))
  ELSE Ret(d, NULL)

\* The loop over the nodes to move (lines 544-554).
RECURSIVE insertParagraphMove(_, _, _, _, _)
insertParagraphMove(d, nodesToMove, i, newBlock, firstChild) ==
  IF d.err # "" \/ i > Len(nodesToMove) THEN d
  ELSE IF ~ HasNode(d, nodesToMove[i]) THEN Throw(d, "nodeToMove is undefined")
  ELSE insertParagraphMove(
         IF firstChild = NULL THEN append(d, newBlock, << nodesToMove[i] >>)
         ELSE insertBefore(d, firstChild, nodesToMove[i]),
         nodesToMove, i + 1, newBlock, nodesToMove[i])

\* Lines 536-557, nb being the result of insertNewAfter.
insertParagraphInto(nb, nodesToMove) ==
  IF nb.d.err # "" THEN nb.d
  ELSE IF nb.r = NULL THEN insertLineBreak(nb.d, FALSE)
  ELSE selectStart(
         IF nodesToMove = << >> THEN select(nb.d, nb.r, 0, 0)
         ELSE insertParagraphMove(nb.d, nodesToMove, 1, nb.r, NULL),
         nb.r)

\* Lines 528-536, sp being the result of the split of the anchor node when
\* the anchor is inside it.
insertParagraphSplit(sp, currentBlock, split, nodesToMove) ==
  insertParagraphInto(insertNewAfter(sp.d, currentBlock),
                      nodesToMove \o (IF split THEN << NthOrNull(sp.r, 2) >>
                                      ELSE << >>))

\* A variant of insertParagraph that takes the nodes to move in document
\* order, where the code takes them from the last to the first.
insertParagraphCaseInOrder(d, anchorNode, anchorOffset, isText, currentBlock, split) ==
  IF currentBlock = NULL \/ ~ isBlockNode(d, currentBlock)
    THEN Throw(d, "Expected node to have a parent block")
  ELSE insertParagraphSplit(
         IF split THEN splitText(d, anchorNode, { anchorOffset })
         ELSE Ret(d, << >>),
         currentBlock, split,
         IF isText
           THEN getNextSiblings(d, anchorNode)
                  \o (IF anchorOffset = 0 THEN << anchorNode >> ELSE << >>)
           ELSE SubSeq(d.nodes[anchorNode].children, anchorOffset + 1,
                       Len(d.nodes[anchorNode].children)))

\* Lines 519-536: split tells whether the anchor is inside its text node.
insertParagraphCase(d, anchorNode, anchorOffset, isText, currentBlock, split) ==
  IF currentBlock = NULL \/ ~ isBlockNode(d, currentBlock)
    THEN Throw(d, "Expected node to have a parent block")
  ELSE insertParagraphSplit(
         IF split THEN splitText(d, anchorNode, { anchorOffset })
         ELSE Ret(d, << >>),
         currentBlock, split,
         IF isText
           THEN Reverse(getNextSiblings(d, anchorNode))
                  \o (IF anchorOffset = 0 THEN << anchorNode >> ELSE << >>)
           ELSE Reverse(SubSeq(d.nodes[anchorNode].children, anchorOffset + 1,
                               Len(d.nodes[anchorNode].children))))

\* Lines 513-557, d being the document after the selected text was removed.
insertParagraphAt(d) ==
  IF d.err # "" THEN d
  ELSE insertParagraphCase(
         d, d.sel.anchor.key, d.sel.anchor.offset, d.sel.anchor.type = "text",
         IF d.sel.anchor.type = "text" THEN d.nodes[d.sel.anchor.key].parent
         ELSE d.sel.anchor.key,
         /\ d.sel.anchor.type = "text"
         /\ d.sel.anchor.offset # 0
         /\ d.sel.anchor.offset # getTextContentSize(d, d.sel.anchor.key))

insertParagraph(d) ==
  insertParagraphAt(IF d.err = "" /\ ~ isCollapsed(d) THEN removeText(d)
                    ELSE d)


\* ------------------------------------------------------ caret and deletion
\* The nodes ks and their descendants in document order (depth first, parents
\* first).
RECURSIVE PreorderAll(_, _, _)
PreorderAll(d, ks, fuel) ==
  IF ks = << >> THEN << >>
  ELSE << Head(ks) >>
         \o (IF fuel = 0 THEN << >>
             ELSE PreorderAll(d, d.nodes[Head(ks)].children, fuel - 1))
         \o PreorderAll(d, Tail(ks), fuel)

DocumentOrder(d) == PreorderAll(d, << ROOT >>, Len(d.nodes))

\* The text leaf nearest to the place here of the document order, before it
\* or after it (NULL when there is none).
NearText(d, order, here, isBackward) ==
  IF \A i \in 1 .. Len(order) :
       ~ (isTextNode(d, order[i])
            /\ IF isBackward THEN i < here ELSE i > here)
    THEN NULL
    ELSE order[CHOOSE i \in 1 .. Len(order) :
                 /\ isTextNode(d, order[i])
                 /\ IF isBackward THEN i < here ELSE i > here
                 /\ \A j \in 1 .. Len(order) :
                      (isTextNode(d, order[j])
                         /\ IF isBackward THEN j < here ELSE j > here)
                        => IF isBackward THEN j <= i ELSE i <= j]

\* The points of the text leaf of the focus f the surface can reach.
SameLeafTargets(f, len, reach, isBackward) ==
  { Point(f.key, o, "text") :
      o \in { o \in 0 .. len :
                IF isBackward THEN o < f.offset /\ f.offset - o <= reach
                ELSE o > f.offset /\ o - f.offset <= reach } }

\* The near edge of the neighbouring text leaf, when the focus is at the edge
\* of its own leaf.
AcrossTargets(d, f, len, isBackward, here, near) ==
  IF \/ here = 0
     \/ near = NULL
     \/ ~ (\/ f.type = "block"
           \/ ~ isTextNode(d, f.key)
           \/ (isBackward /\ f.offset = 0)
           \/ (~ isBackward /\ f.offset >= len))
    THEN {}
    ELSE { Point(near, IF isBackward THEN getTextContentSize(d, near) ELSE 0,
                 "text") }

DomTargetsAt(d, f, isBackward, granularity, order, here, len) ==
  (IF f.type = "text" /\ isTextNode(d, f.key)
     THEN SameLeafTargets(f, len, IF granularity = "character" THEN 2 ELSE len,
                          isBackward)
     ELSE {})
    \cup AcrossTargets(d, f, len, isBackward, here,
                       NearText(d, order, here, isBackward))

\* The points where the surface (Selection.modify) can put the focus when it
\* is asked to move it one unit: the answer belongs to the host, so it is any
\* of: a point of the same text leaf, one or two code units away for a
\* character and up to the edge of the leaf for a word or a line; or the
\* near edge of the neighbouring text leaf in document order.
DomTargets(d, isBackward, granularity) ==
  DomTargetsAt(d, d.sel.focus, isBackward, granularity, DocumentOrder(d),
               IndexOf(DocumentOrder(d), PointNode(d, d.sel.focus)) + 1,
               IF isTextNode(d, d.sel.focus.key)
                 THEN getTextContentSize(d, d.sel.focus.key) ELSE 0)

\* shared/getPossibleDecoratorNode
getPossibleDecoratorNode(d, f, isBackward) ==
  IF f.type = "block"
    THEN IF isBlockNode(d, f.key)
           THEN getChildAtIndex(d, f.key, IF isBackward THEN f.offset - 1
                                          ELSE f.offset)
           ELSE NULL
  ELSE IF (isBackward /\ f.offset = 0)
            \/ (~ isBackward /\ f.offset = getTextContentSize(d, f.key))
    THEN IF isBackward THEN getPreviousSibling(d, f.key)
         ELSE getNextSibling(d, f.key)
  ELSE NULL

NoRange == Point(NULL, 0, "none")

\* The focus goes to p, and the anchor too when the selection collapses.
MoveFocus(d, p, collapse) ==
  [ d EXCEPT !.sel.focus = p,
             !.sel.anchor = IF collapse THEN p ELSE @,
             !.sel.dirty = TRUE ]

\* Lines 797-835, node being the possible decorator node.
updateCaretSelectionAround(d, isBackward, collapse, dom, node) ==
  IF /\ isDecoratorNode(d, node)
     /\ ~ isTextNode(d, IF isBackward THEN getPreviousSibling(d, node)
                        ELSE getNextSibling(d, node))
    THEN IF d.nodes[node].parent = NULL
           THEN Throw(d, "Expected node to have a parent")
           ELSE MoveFocus(d, Point(d.nodes[node].parent,
                                   getIndexWithinParent(d, node), "block"),
                          collapse)
  ELSE IF dom = NoRange THEN d
  ELSE MoveFocus(d, dom, collapse)

\* dom is the focus the surface answers with, NoRange when it has no range.
updateCaretSelectionForRange(d, isBackward, granularity, collapse, dom) ==
  IF d.err # "" THEN d
  ELSE updateCaretSelectionAround(
         d, isBackward, collapse, dom,
         getPossibleDecoratorNode(d, d.sel.focus, isBackward))

GraphemeChars == { "^" }

\* outline/TextHelpers doesContainGrapheme
doesContainGrapheme(text) == \E i \in 1 .. Len(text) : text[i] \in GraphemeChars

\* Lines 638-653, for the offsets of a selection within one text node.
updateCaretSelectionWithin(d, isBackward, startOffset, endOffset) ==
  IF /\ startOffset # endOffset - 1
     /\ ~ doesContainGrapheme(JsSlice(getTextContent(d, d.sel.anchor.key),
                                      startOffset, endOffset))
    THEN IF isBackward THEN [ d EXCEPT !.sel.focus.offset = endOffset - 1 ]
         ELSE [ d EXCEPT !.sel.anchor.offset = endOffset - 1 ]
    ELSE d

updateCaretSelectionForUnicodeCharacter(d, isBackward) ==
  IF /\ d.err = ""
     /\ d.sel.anchor.key = d.sel.focus.key
     /\ d.sel.anchor.type = "text"
     /\ d.sel.focus.type = "text"
    THEN updateCaretSelectionWithin(
           d, isBackward, Min(d.sel.anchor.offset, d.sel.focus.offset),
           Max(d.sel.anchor.offset, d.sel.focus.offset))
    ELSE d

\* Lines 671-677: the text of anchorNode goes to the end of the hashtag
\* before it.
joinPreviousHashtag(d, anchorNode, sibling) ==
  IF isTextNode(d, sibling) /\ isHashtagNode(d, sibling)
    THEN remove(setTextContent(select(d, sibling, Undef, Undef), sibling,
                               getTextContent(d, sibling)
                                 \o getTextContent(d, anchorNode)),
                anchorNode)
    ELSE d

\* Lines 682-688: the text after the hashtag anchorNode goes to its end.
joinNextText(d, anchorNode, sibling) ==
  IF isTextNode(d, sibling) /\ isSimpleText(d, sibling)
    THEN remove(setTextContent(d, anchorNode,
                               getTextContent(d, anchorNode)
                                 \o getTextContent(d, sibling)),
                sibling)
    ELSE d

updateCaretSelectionForAdjacentHashtags(d) ==
  IF d.err # "" \/ d.sel.anchor.type # "text" THEN d
  ELSE IF d.sel.anchor.offset = 0 /\ isSimpleText(d, d.sel.anchor.key)
    THEN joinPreviousHashtag(d, d.sel.anchor.key,
                             getPreviousSibling(d, d.sel.anchor.key))
  ELSE IF /\ isHashtagNode(d, d.sel.anchor.key)
          /\ d.sel.anchor.offset = getTextContentSize(d, d.sel.anchor.key)
    THEN joinNextText(d, d.sel.anchor.key, getNextSibling(d, d.sel.anchor.key))
  ELSE d

Whitespace == { " ", NewLine }

\* String.prototype.split(/\s/g)
RECURSIVE SplitOnSpace(_, _)
SplitOnSpace(text, cur) ==
  IF text = << >> THEN << cur >>
  ELSE IF Head(text) \in Whitespace
    THEN << cur >> \o SplitOnSpace(Tail(text), << >>)
  ELSE SplitOnSpace(Tail(text), Append(cur, Head(text)))

\* Array.prototype.join(' ')
RECURSIVE JoinWithSpace(_)
JoinWithSpace(parts) ==
  IF parts = << >> THEN << >>
  ELSE IF Len(parts) = 1 THEN parts[1]
  ELSE parts[1] \o << " " >> \o JoinWithSpace(Tail(parts))

\* Lines 752-770, nextTextContent being the text that is left.
removeSegmentTo(d, node, isBackward, nextTextContent) ==
  IF nextTextContent = << >> THEN remove(d, node)
  ELSE select(setTextContent(d, node, nextTextContent), node,
              IF isBackward THEN Undef ELSE 0, IF isBackward THEN Undef ELSE 0)

\* split.pop() or split.shift()
DropSegment(split, isBackward) ==
  IF isBackward THEN SubSeq(split, 1, Len(split) - 1) ELSE Tail(split)

removeSegment(d, node, isBackward) ==
  IF d.err # "" THEN d
  ELSE removeSegmentTo(
         d, node, isBackward,
         JoinWithSpace(DropSegment(SplitOnSpace(getTextContent(d, node), << >>),
                                   isBackward)))

IsBlank(text) == \A i \in 1 .. Len(text) : text[i] \in Whitespace

\* The selection goes to the start of the next block, sibling, and the
\* paragraph is removed.
collapseInto(d, block, sibling, firstChild) ==
  remove(IF isTextNode(d, firstChild) THEN select(d, firstChild, 0, 0)
         ELSE select(d, sibling, 0, 0),
         block)

\* ParagraphNode.collapseAtStart; the base BlockNode.collapseAtStart is false.
collapseAtStart(d, block) ==
  IF /\ d.err = ""
     /\ d.nodes[block].type = "paragraph"
     /\ isBlockNode(d, getNextSibling(d, block))
     /\ getIndexWithinParent(d, block) = 0
     /\ \/ d.nodes[block].children = << >>
        \/ /\ isTextNode(d, d.nodes[block].children[1])
           /\ IsBlank(getTextContent(d, d.nodes[block].children[1]))
    THEN Ret(collapseInto(d, block, getNextSibling(d, block),
                          getFirstChild(d, getNextSibling(d, block))),
             TRUE)
    ELSE Ret(d, FALSE)

\* Whether the segment of the text node of the point p is to be removed
\* (lines 705-721): towardsEnd tells whether the deletion goes from p to the
\* end of the node.
SegmentHit(d, p, other, towardsEnd) ==
  \/ (other.type = "text" /\ other.key = p.key)
  \/ (towardsEnd /\ p.offset # getTextContentSize(d, p.key))
  \/ (~ towardsEnd /\ p.offset # 0)

\* The segmented-leaf test of deleteCharacter (lines 701-723): the leaf whose
\* segment is to be removed, or NULL.
SegmentToRemove(d, isBackward) ==
  IF d.sel.focus.type = "text" /\ isSegmented(d, d.sel.focus.key)
    THEN IF SegmentHit(d, d.sel.focus, d.sel.anchor, isBackward)
           THEN d.sel.focus.key ELSE NULL
  ELSE IF d.sel.anchor.type = "text" /\ isSegmented(d, d.sel.anchor.key)
    THEN IF SegmentHit(d, d.sel.anchor, d.sel.focus, ~ isBackward)
           THEN d.sel.anchor.key ELSE NULL
  ELSE NULL

\* Lines 724 and 701-723: Ret(d, whether deleteCharacter returns there).
deleteCharacterRange(d, isBackward, segment) ==
  IF segment # NULL THEN Ret(removeSegment(d, segment, isBackward), TRUE)
  ELSE Ret(updateCaretSelectionForUnicodeCharacter(d, isBackward), FALSE)

\* "Special handling around rich text nodes" (lines 725-734).
deleteCharacterAtStart(d, block) ==
  IF block = NULL THEN Ret(Throw(d, "Expected node to have a parent"), TRUE)
  ELSE collapseAtStart(d, block)

\* Lines 695-735, d being the document after the focus was moved.
deleteCharacterMoved(d, isBackward) ==
  IF d.err # "" THEN Ret(d, TRUE)
  ELSE IF ~ isCollapsed(d)
    THEN deleteCharacterRange(d, isBackward, SegmentToRemove(d, isBackward))
  ELSE IF isBackward /\ d.sel.anchor.offset = 0
    THEN deleteCharacterAtStart(d, IF d.sel.anchor.type = "block"
                                     THEN d.sel.anchor.key
                                     ELSE d.nodes[d.sel.anchor.key].parent)
  ELSE Ret(d, FALSE)

\* Lines 736-738, p.r telling whether deleteCharacter has returned.
deleteCharacterEnd(p) ==
  IF p.r THEN p.d ELSE updateCaretSelectionForAdjacentHashtags(removeText(p.d))

deleteCharacter(d, isBackward, dom) ==
  deleteCharacterEnd(
    IF d.err # "" THEN Ret(d, TRUE)
    ELSE IF ~ isCollapsed(d) THEN Ret(d, FALSE)
    ELSE deleteCharacterMoved(
           updateCaretSelectionForRange(d, isBackward, "character", FALSE, dom),
           isBackward))

deleteBackward(d, dom) == deleteCharacter(d, TRUE, dom)

deleteForward(d, dom) == deleteCharacter(d, FALSE, dom)

deleteLineBackward(d, dom) ==
  removeText(IF d.err = "" /\ isCollapsed(d)
               THEN updateCaretSelectionForRange(d, TRUE, "lineboundary", FALSE, dom)
               ELSE d)

deleteLineForward(d, dom) ==
  removeText(IF d.err = "" /\ isCollapsed(d)
               THEN updateCaretSelectionForRange(d, FALSE, "lineboundary", FALSE, dom)
               ELSE d)

deleteWordBackward(d, dom) ==
  removeText(IF d.err = "" /\ isCollapsed(d)
               THEN updateCaretSelectionForRange(d, TRUE, "word", FALSE, dom)
               ELSE d)

deleteWordForward(d, dom) ==
  removeText(IF d.err = "" /\ isCollapsed(d)
               THEN updateCaretSelectionForRange(d, FALSE, "word", FALSE, dom)
               ELSE d)

\* A leaf that is neither a text node nor a block stands for its parent.
SelectAllNode(d, leaf) ==
  IF leaf # NULL /\ ~ isTextNode(d, leaf) /\ ~ isBlockNode(d, leaf)
    THEN d.nodes[leaf].parent ELSE leaf

\* Lines 1336-1356, for the first and the last descendant of the root.
selectAllBetween(d, firstD, lastD) ==
  IF SelectAllNode(d, firstD) # NULL /\ SelectAllNode(d, lastD) # NULL
    THEN setPoint(
           setPoint(d, "anchor", SelectAllNode(d, firstD), 0,
                    IF isTextNode(d, firstD) THEN "text" ELSE "block"),
           "focus", SelectAllNode(d, lastD),
           IF isTextNode(d, lastD) THEN getTextContentSize(d, lastD)
           ELSE IF lastD # NULL /\ ~ isBlockNode(d, lastD)
             THEN getChildrenSize(d, SelectAllNode(d, lastD))
           ELSE 0,
           IF isTextNode(d, lastD) THEN "text" ELSE "block")
    ELSE d

\* Lines 1332-1356, topParent being the top parent block of the anchor.
selectAllUnder(d, topParent) ==
  IF topParent = NULL
    THEN Throw(d, "Expected node to have a top parent block")
  ELSE selectAllBetween(d, getFirstDescendant(d, d.nodes[topParent].parent),
                        getLastDescendant(d, d.nodes[topParent].parent))

selectAll(d) ==
  IF d.err # "" THEN d
  ELSE selectAllUnder(d, getTopParentBlock(d, d.sel.anchor.key))


\* ------------------------------------------------------- the state machine
MaxOps == 2

RootKey == ROOT

Text(parent, text, mode) ==
  [ NewNode("text", text) EXCEPT !.parent = parent, !.mode = mode ]

Block(type, parent, children) ==
  [ NewNode(type, << >>) EXCEPT !.parent = parent, !.children = children ]

Leaf(type, parent) == [ NewNode(type, << >>) EXCEPT !.parent = parent ]

MkDoc(nodes, anchor, focus) ==
  [ nodes |-> nodes,
    sel |-> [ anchor |-> anchor, focus |-> focus, textFormat |-> 0,
              dirty |-> FALSE ],
    err |-> "", dirty |-> {}, css |-> {}, composing |-> NULL ]

\* The documents the editor starts from: one paragraph of plain text; an
\* immutable and a segmented leaf followed by plain text; two paragraphs; an
\* empty paragraph before a paragraph; a line break and a decorator between
\* text; a hashtag before text; text inside an inline block.
PlainTree ==
  << Block("root", NULL, << 2 >>), Block("paragraph", 1, << 3 >>),
     Text(2, << "a", "b" >>, "normal") >>

ImmutableTree ==
  << Block("root", NULL, << 2 >>), Block("paragraph", 1, << 3, 4 >>),
     Text(2, << "a", "b" >>, "immutable"), Text(2, << "c" >>, "normal") >>

ImmutableBetweenTree ==
  << Block("root", NULL, << 2 >>), Block("paragraph", 1, << 3, 4, 5 >>),
     Text(2, << "a" >>, "normal"), Text(2, << "b" >>, "immutable"),
     Text(2, << "c" >>, "normal") >>

\* A text leaf with the style "size: 1;".
StyledTree ==
  << Block("root", NULL, << 2 >>), Block("paragraph", 1, << 3 >>),
     [ Text(2, << "a", "b" >>, "normal") EXCEPT !.style = << << "size", "1" >> >> ] >>

\* The document after its style strings went through patchNodeStyle: each
\* is a key of cssToStyles.
Memoised(d) ==
  [ d EXCEPT !.css = { d.nodes[k].style : k \in 1 .. Len(d.nodes) } \ { << >> } ]

SegmentedTree ==
  << Block("root", NULL, << 2 >>), Block("paragraph", 1, << 3, 4 >>),
     Text(2, << "a", " ", "b" >>, "segmented"), Text(2, << "c" >>, "normal") >>

TwoParagraphTree ==
  << Block("root", NULL, << 2, 4 >>), Block("paragraph", 1, << 3 >>),
     Text(2, << "a", "^" >>, "normal"), Block("paragraph", 1, << 5 >>),
     Text(4, << "b" >>, "normal") >>

\* A paragraph of one leaf before a paragraph of two leaves.
LongParagraphTree ==
  << Block("root", NULL, << 2, 4 >>), Block("paragraph", 1, << 3 >>),
     Text(2, << "a" >>, "normal"), Block("paragraph", 1, << 5, 6 >>),
     Text(4, << "b", "c" >>, "normal"), Text(4, << "d" >>, "normal") >>

\* Two plain text leaves side by side.
AdjacentTree ==
  << Block("root", NULL, << 2 >>), Block("paragraph", 1, << 3, 4 >>),
     Text(2, << "a", "b" >>, "normal"), Text(2, << "c", "d" >>, "normal") >>

EmptyParagraphTree ==
  << Block("root", NULL, << 2, 3 >>), Block("paragraph", 1, << >>),
     Block("paragraph", 1, << 4 >>), Text(3, << "a" >>, "normal") >>

LeafTree ==
  << Block("root", NULL, << 2 >>), Block("paragraph", 1, << 3, 4, 5 >>),
     Text(2, << "a" >>, "normal"), Leaf("linebreak", 2), Leaf("decorator", 2) >>

HashtagTree ==
  << Block("root", NULL, << 2 >>), Block("paragraph", 1, << 3, 4 >>),
     Text(2, << "#", "a" >>, "hashtag"), Text(2, << "b" >>, "normal") >>

InlineTree ==
  << Block("root", NULL, << 2 >>), Block("paragraph", 1, << 3, 4 >>),
     Text(2, << "a" >>, "inert"), Block("block", 2, << 5 >>),
     Text(4, << "b", "c" >>, "normal") >>

TextPt(k, o) == Point(k, o, "text")

BlockPt(k, o) == Point(k, o, "block")

Caret(tree, p) == MkDoc(tree, p, p)

\* The document d while the text node k is under composition.
Composing(d, k) == [ d EXCEPT !.composing = k ]

InitialDocs ==
  { Caret(PlainTree, TextPt(3, 1)), Caret(PlainTree, BlockPt(2, 0)),
    Caret(PlainTree, TextPt(3, 0)),
    MkDoc(PlainTree, TextPt(3, 0), TextPt(3, 2)),
    MkDoc(PlainTree, TextPt(3, 2), TextPt(3, 1)),
    Caret(ImmutableTree, TextPt(3, 2)), Caret(ImmutableTree, TextPt(4, 0)),
    MkDoc(ImmutableTree, TextPt(3, 0), TextPt(4, 1)),
    MkDoc(ImmutableTree, TextPt(3, 1), TextPt(4, 0)),
    Caret(SegmentedTree, TextPt(3, 3)), Caret(SegmentedTree, TextPt(3, 0)),
    Caret(SegmentedTree, TextPt(3, 1)),
    MkDoc(SegmentedTree, TextPt(3, 1), TextPt(4, 1)),
    Caret(TwoParagraphTree, TextPt(5, 0)), Caret(TwoParagraphTree, TextPt(3, 2)),
    MkDoc(TwoParagraphTree, TextPt(3, 1), TextPt(5, 1)),
    MkDoc(TwoParagraphTree, TextPt(5, 1), TextPt(3, 0)),
    Caret(EmptyParagraphTree, BlockPt(2, 0)),
    MkDoc(EmptyParagraphTree, BlockPt(2, 0), TextPt(4, 1)),
    Caret(LeafTree, TextPt(3, 1)), Caret(LeafTree, BlockPt(2, 3)),
    MkDoc(LeafTree, TextPt(3, 0), BlockPt(2, 2)),
    Caret(HashtagTree, TextPt(3, 2)), Caret(HashtagTree, TextPt(4, 0)),
    MkDoc(HashtagTree, TextPt(3, 1), TextPt(4, 1)),
    Caret(InlineTree, TextPt(5, 1)),
    MkDoc(InlineTree, TextPt(3, 0), TextPt(5, 1)),
    MkDoc(InlineTree, TextPt(5, 2), TextPt(3, 1)),
    Composing(Caret(PlainTree, TextPt(3, 1)), 3),
    MkDoc(ImmutableTree, TextPt(3, 0), TextPt(3, 1)),
    MkDoc(SegmentedTree, TextPt(3, 3), TextPt(3, 1)),
    MkDoc(ImmutableBetweenTree, TextPt(3, 0), TextPt(5, 1)),
    MkDoc(StyledTree, TextPt(3, 0), TextPt(3, 2)),
    MkDoc(LongParagraphTree, TextPt(3, 1), TextPt(5, 1)),
    MkDoc(LeafTree, BlockPt(2, 3), BlockPt(2, 1)),
    MkDoc(AdjacentTree, TextPt(4, 1), TextPt(3, 2)),
    Memoised(MkDoc(StyledTree, TextPt(3, 2), TextPt(3, 1))) }

Texts == { << >>, << "x" >> }

FormatTypes == { "bold" }

Patches == { << << "color", "red" >> >> }

\* The node lists handed to insertNodes: a text leaf; a decorator; a
\* paragraph holding a text leaf; a text leaf followed by a decorator.
NodeLists == { "text", "decorator", "paragraph", "leaves" }

CreateNodeList(d, kind) ==
  IF kind = "paragraph"
    THEN Ret(append(createTextNode(createParagraphNode(d), << "y" >>),
                    NextKey(d), << NextKey(d) + 1 >>),
             << NextKey(d) >>)
  ELSE IF kind = "decorator"
    THEN Ret(createNode(d, "decorator", << >>), << NextKey(d) >>)
  ELSE IF kind = "leaves"
    THEN Ret(createNode(createTextNode(d, << "y" >>), "decorator", << >>),
             << NextKey(d), NextKey(d) + 1 >>)
  ELSE Ret(createTextNode(d, << "y" >>), << NextKey(d) >>)

\* insertNodes on the nodes c.r created in the document c.d.
InsertCreated(c, selectAtStart) == insertNodes(c.d, c.r, selectAtStart).d

\* Every operation runs in an update cycle of its own: the dirty marks of the
\* previous cycle are gone and a thrown error has reached the caller.
Begin(d) == [ d EXCEPT !.err = "", !.dirty = {}, !.sel.dirty = FALSE ]

\* What every operation records: the document it started on and its count.
Ran ==
  /\ prevDoc' = Begin(doc)
  /\ nOps' = nOps + 1
  /\ UNCHANGED engineVars

InsertText(text) ==
  /\ nOps < MaxOps
  /\ doc' = insertText(Begin(doc), text)
  /\ lastArg' = text
  /\ lastOp' = IF text = << >> THEN "removeText" ELSE "insertText"
  /\ Ran

InsertNodes(kind, selectAtStart) ==
  /\ nOps < MaxOps
  /\ doc' = InsertCreated(CreateNodeList(Begin(doc), kind), selectAtStart)
  /\ lastArg' = << kind, selectAtStart >>
  /\ lastOp' = "insertNodes"
  /\ Ran

InsertParagraph ==
  /\ nOps < MaxOps
  /\ doc' = insertParagraph(Begin(doc))
  /\ lastArg' = << >>
  /\ lastOp' = "insertParagraph"
  /\ Ran

InsertLineBreak(selectAtStart) ==
  /\ nOps < MaxOps
  /\ doc' = insertLineBreak(Begin(doc), selectAtStart)
  /\ lastArg' = << selectAtStart >>
  /\ lastOp' = "insertLineBreak"
  /\ Ran

FormatText(formatType) ==
  /\ nOps < MaxOps
  /\ doc' = formatText(Begin(doc), formatType)
  /\ lastArg' = << formatType >>
  /\ lastOp' = "formatText"
  /\ Ran

PatchStyleText(patch) ==
  /\ nOps < MaxOps
  /\ doc' = patchStyleText(Begin(doc), patch)
  /\ lastArg' = patch
  /\ lastOp' = "patchStyleText"
  /\ Ran

DomAnswers(isBackward, granularity) ==
  DomTargets(doc, isBackward, granularity) \cup { NoRange }

DeleteBackward ==
  /\ nOps < MaxOps
  /\ \E dom \in DomAnswers(TRUE, "character") :
       /\ doc' = deleteBackward(Begin(doc), dom)
       /\ lastArg' = << dom >>
  /\ lastOp' = "deleteBackward"
  /\ Ran

DeleteForward ==
  /\ nOps < MaxOps
  /\ \E dom \in DomAnswers(FALSE, "character") :
       /\ doc' = deleteForward(Begin(doc), dom)
       /\ lastArg' = << dom >>
  /\ lastOp' = "deleteForward"
  /\ Ran

DeleteWordBackward ==
  /\ nOps < MaxOps
  /\ \E dom \in DomAnswers(TRUE, "word") :
       /\ doc' = deleteWordBackward(Begin(doc), dom)
       /\ lastArg' = << dom >>
  /\ lastOp' = "deleteWordBackward"
  /\ Ran

DeleteWordForward ==
  /\ nOps < MaxOps
  /\ \E dom \in DomAnswers(FALSE, "word") :
       /\ doc' = deleteWordForward(Begin(doc), dom)
       /\ lastArg' = << dom >>
  /\ lastOp' = "deleteWordForward"
  /\ Ran

DeleteLineBackward ==
  /\ nOps < MaxOps
  /\ \E dom \in DomAnswers(TRUE, "lineboundary") :
       /\ doc' = deleteLineBackward(Begin(doc), dom)
       /\ lastArg' = << dom >>
  /\ lastOp' = "deleteLineBackward"
  /\ Ran

DeleteLineForward ==
  /\ nOps < MaxOps
  /\ \E dom \in DomAnswers(FALSE, "lineboundary") :
       /\ doc' = deleteLineForward(Begin(doc), dom)
       /\ lastArg' = << dom >>
  /\ lastOp' = "deleteLineForward"
  /\ Ran

SelectAll ==
  /\ nOps < MaxOps
  /\ doc' = selectAll(Begin(doc))
  /\ lastArg' = << >>
  /\ lastOp' = "selectAll"
  /\ Ran

\* Calls on the root node (src/unnamed/part_003, lines 50-71).
RootSelect ==
  /\ nOps < MaxOps
  /\ doc' = select(Begin(doc), RootKey, Undef, Undef)
  /\ lastArg' = << >>
  /\ lastOp' = "root.select"
  /\ Ran

RootRemove ==
  /\ nOps < MaxOps
  /\ doc' = remove(Begin(doc), RootKey)
  /\ lastArg' = << >>
  /\ lastOp' = "root.remove"
  /\ Ran

RootReplace ==
  /\ nOps < MaxOps
  /\ \E n \in 1 .. Len(doc.nodes) :
       /\ doc' = replace(Begin(doc), RootKey, n)
       /\ lastArg' = << n >>
  /\ lastOp' = "root.replace"
  /\ Ran

RootInsertBefore ==
  /\ nOps < MaxOps
  /\ \E n \in 1 .. Len(doc.nodes) :
       /\ doc' = insertBefore(Begin(doc), RootKey, n)
       /\ lastArg' = << n >>
  /\ lastOp' = "root.insertBefore"
  /\ Ran

RootInsertAfter ==
  /\ nOps < MaxOps
  /\ \E n \in 1 .. Len(doc.nodes) :
       /\ doc' = insertAfter(Begin(doc), RootKey, n)
       /\ lastArg' = << n >>
  /\ lastOp' = "root.insertAfter"
  /\ Ran

\* The argument lists of RootNode.append: a node of the document other than
\* the root, alone or after the first child of the root.
AppendLists(d) ==
  { << n >> : n \in 2 .. Len(d.nodes) }
    \cup { << getFirstChild(d, ROOT), n >> :
              n \in { m \in 2 .. Len(d.nodes) : ~ isEmpty(d, ROOT) } }

RootAppend ==
  /\ nOps < MaxOps
  /\ \E nodesToAppend \in AppendLists(doc) :
       /\ doc' = append(Begin(doc), RootKey, nodesToAppend)
       /\ lastArg' = nodesToAppend
  /\ lastOp' = "root.append"
  /\ Ran

Init ==
  /\ EngineInit
  /\ doc = Caret(PlainTree, TextPt(3, 0))
  /\ prevDoc = doc
  /\ lastOp = "init"
  /\ lastArg = << >>
  /\ nOps = 0

Spec == Init /\ [][Next]_vars

InitEdit ==
  /\ EngineInit
  /\ doc \in InitialDocs
  /\ prevDoc = doc
  /\ lastOp = "init"
  /\ lastArg = << >>
  /\ nOps = 0

NextEdit ==
  \/ \E text \in Texts : InsertText(text)
  \/ \E kind \in NodeLists, selectAtStart \in BOOLEAN :
       InsertNodes(kind, selectAtStart)
  \/ InsertParagraph
  \/ \E selectAtStart \in BOOLEAN : InsertLineBreak(selectAtStart)
  \/ \E formatType \in FormatTypes : FormatText(formatType)
  \/ \E patch \in Patches : PatchStyleText(patch)
  \/ DeleteBackward
  \/ DeleteForward
  \/ DeleteWordBackward
  \/ DeleteWordForward
  \/ DeleteLineBackward
  \/ DeleteLineForward
  \/ SelectAll
  \/ RootSelect
  \/ RootRemove
  \/ RootReplace
  \/ RootInsertBefore
  \/ RootInsertAfter
  \/ RootAppend

SpecEdit == InitEdit /\ [][NextEdit]_vars


\* ======================================================== claims, Part I

C2_SameStampOneDraft ==
  ( /\ Len(calls) = 2
    /\ calls[1].value /\ calls[2].value
    /\ calls[1].ts # NoTs /\ calls[1].ts = calls[2].ts ) =>
    calls[1].draft = calls[2].draft

\* C3: when update is called while a draft is pending and the call's time
\* stamp differs from the recorded one, that draft has been committed (it is
\* the current view model and the listeners were given it) by the time the
\* callback starts, and the callback's draft is a fresh clone of it.
C3_FlushBeforeCallback ==
  (last.op = "begin" /\ last.pend0 # NULL /\ last.ts # last.stamp0) =>
    /\ viewModel = last.pend0
    /\ Len(notified) = last.nlen0 + 1
    /\ notified[Len(notified)] = last.pend0
    /\ last.cloned
    /\ last.draft # last.pend0
    /\ vms[last.draft].base = last.pend0
    /\ vms[last.draft].muts = vms[last.pend0].muts
    /\ pendingViewModel = last.draft
    /\ Top.draft = last.draft

C3_Witness ==
  /\ last.op = "begin" /\ last.pend0 # NULL /\ last.ts # last.stamp0
  /\ vms[last.pend0].dirty
  /\ viewModel = last.pend0

\* C4: when an update without a time stamp returns true, the current view
\* model is the draft its callback mutated and no draft is pending.
C4_SyncCommitOnReturn ==
  (last.op = "return" /\ last.ts = NoTs /\ last.value) =>
    /\ viewModel = last.draft
    /\ pendingViewModel = NULL

\* C5: when an update with a time stamp returns true, its draft is still the
\* pending view model, the current view model holds none of the callback's
\* mutations and no listener has been given a view model that holds them.
C5_DeferredCommitOnReturn ==
  (last.op = "return" /\ last.ts # NoTs /\ last.value) =>
    /\ pendingViewModel = last.draft
    /\ last.call \notin vms[viewModel].muts
    /\ \A i \in (last.nlen0 + 1) .. Len(notified) :
         last.call \notin vms[notified[i]].muts

\* C6: an update called from inside the callback of another update runs on
\* the outer call's draft: nothing is cloned and the outer draft has not been
\* committed when the nested callback starts.
C6_NestedSharesDraft ==
  (last.op = "begin" /\ last.nested) =>
    /\ last.draft = last.outer
    /\ ~ last.cloned
    /\ viewModel # last.outer

\* C7: a draft that is pending when a surface is attached is committed by
\* setEditorElement: it becomes the current view model and is handed to the
\* listeners.
C7_AttachCommitsDraft ==
  (last.op = "setEditorElement" /\ last.value /\ last.pend0 # NULL) =>
    /\ viewModel = last.pend0
    /\ Len(notified) = last.nlen0 + 1

\* ======================================================= claims, Part II
MutationOps ==
  { "insertText", "removeText", "insertNodes", "insertParagraph",
    "insertLineBreak", "formatText", "patchStyleText", "deleteBackward",
    "deleteForward", "deleteWordBackward", "deleteWordForward",
    "deleteLineBackward", "deleteLineForward" }

NoDuplicates(s) == \A i, j \in 1 .. Len(s) : s[i] = s[j] => i = j

Occurrences(s, x) == Cardinality({ i \in 1 .. Len(s) : s[i] = x })

\* The tree below the root is well formed.
TreeConnected(d) ==
  /\ getParent(d, ROOT) = NULL
  /\ NoDuplicates(DocumentOrder(d))
  /\ \A k \in SeqToSet(DocumentOrder(d)) \ { ROOT } :
       /\ getParent(d, k) # NULL
       /\ Occurrences(getChildren(d, getParent(d, k)), k) = 1
       /\ NoDuplicates(<< k >> \o ParentChain(d, k, Len(d.nodes)))
       /\ isAttached(d, k)

PointValid(d, p) ==
  /\ HasNode(d, p.key)
  /\ isAttached(d, p.key)
  /\ p.offset >= 0
  /\ \/ p.type = "text" /\ isTextNode(d, p.key)
          /\ p.offset <= Len(d.nodes[p.key].text)
     \/ p.type = "block" /\ isBlockNode(d, p.key)
          /\ p.offset <= getChildrenSize(d, p.key)

SelectionValid(d) == PointValid(d, d.sel.anchor) /\ PointValid(d, d.sel.focus)

\* C8: after any sequence of mutation operations every node reachable from
\* the root has a parent chain that ends at the root without a cycle, occurs
\* exactly once in the child list of its parent, and the root has no parent.
C8_TreeConnectivity == TreeConnected(doc)

\* A second mutation operation has returned without an error, it has taken a
\* node out of the tree and has put a new node in it.
C8_Witness ==
  /\ lastOp \in MutationOps
  /\ nOps = MaxOps
  /\ doc.err = ""
  /\ \E k \in 1 .. Len(prevDoc.nodes) :
       isAttached(prevDoc, k) /\ ~ isAttached(doc, k)
  /\ \E k \in Len(prevDoc.nodes) + 1 .. Len(doc.nodes) : isAttached(doc, k)

\* C9: when a mutation operation returns, on a well-formed document with a
\* valid selection, the anchor and the focus are on attached nodes with an
\* offset within the text length (text point) or the child count (block point).
C9_SelectionOnAttachedNode ==
  (/\ lastOp \in MutationOps
   /\ doc.err = ""
   /\ TreeConnected(prevDoc)
   /\ SelectionValid(prevDoc)) => SelectionValid(doc)

RootOps ==
  { "root.select", "root.remove", "root.replace", "root.insertBefore",
    "root.insertAfter" }

\* C10: select, remove, replace, insertBefore and insertAfter called on the
\* root node raise an invariant error and leave the tree and the selection as
\* they were.
C10_RootCallsThrow ==
  lastOp \in RootOps =>
    /\ doc.err # ""
    /\ doc.nodes = prevDoc.nodes
    /\ doc.sel = prevDoc.sel

\* A call on the root node has thrown, after an earlier operation.
C10_Witness ==
  /\ lastOp \in RootOps
  /\ nOps = MaxOps
  /\ doc.err # ""

\* C11: RootNode.append with an argument that is not an element node raises
\* an invariant error and appends none of its arguments, the element nodes
\* before the offending one included.
C11_RootAppendOnlyElements ==
  (/\ lastOp = "root.append"
   /\ \E i \in 1 .. Len(lastArg) : ~ isBlockNode(prevDoc, lastArg[i])) =>
    /\ doc.err # ""
    /\ doc.nodes = prevDoc.nodes

\* RootNode.append was called with an element node followed by a node that is
\* not an element node.
C11_Witness ==
  /\ lastOp = "root.append"
  /\ Len(lastArg) = 2
  /\ isBlockNode(prevDoc, lastArg[1])
  /\ ~ isBlockNode(prevDoc, lastArg[2])
  /\ doc.err # ""

\* The selection of d is inside the one text leaf k, a plain leaf of the
\* pending format of the selection.
InOneLeaf(d, k) ==
  /\ d.sel.anchor.type = "text" /\ d.sel.anchor.key = k
  /\ d.sel.focus.type = "text" /\ d.sel.focus.key = k
  /\ SelectionValid(d)
  /\ isSimpleText(d, k)
  /\ getFormat(d, k) = d.sel.textFormat

StartOffset(d) == Min(d.sel.anchor.offset, d.sel.focus.offset)

EndOffset(d) == Max(d.sel.anchor.offset, d.sel.focus.offset)

\* The text of the leaf k of d with the selected range replaced by text.
Replaced(d, k, text) ==
  SubSeq(d.nodes[k].text, 1, StartOffset(d)) \o text
    \o SubSeq(d.nodes[k].text, EndOffset(d) + 1, Len(d.nodes[k].text))

\* What insertText of text leaves of the leaf k and of the selection.
SplicedInPlace(before, after, k, text) ==
  /\ after.err = ""
  /\ isCollapsed(after)
  /\ IF Replaced(before, k, text) = << >> THEN ~ isAttached(after, k)
     ELSE /\ isAttached(after, k)
          /\ after.nodes[k].text = Replaced(before, k, text)
          /\ after.sel.anchor = TextPt(k, StartOffset(before) + Len(text))

\* C12 as stated: insertText on a selection inside one plain text leaf of the
\* pending format replaces the range by the text, leaves the selection
\* collapsed after the text and removes a leaf left empty.
C12_SingleLeafSplice ==
  \A k \in 1 .. Len(prevDoc.nodes) :
    (lastOp \in { "insertText", "removeText" } /\ InOneLeaf(prevDoc, k))
      => SplicedInPlace(prevDoc, doc, k, lastArg)

\* C12, for a leaf that is not under composition.
C12_SingleLeafSpliceNotComposing ==
  \A k \in 1 .. Len(prevDoc.nodes) :
    (/\ lastOp \in { "insertText", "removeText" }
     /\ InOneLeaf(prevDoc, k)
     /\ ~ isComposing(prevDoc, k)) => SplicedInPlace(prevDoc, doc, k, lastArg)

\* Text was inserted over a range of a leaf that is not under composition.
C12_Witness ==
  \E k \in 1 .. Len(prevDoc.nodes) :
    /\ lastOp = "insertText"
    /\ lastArg # << >>
    /\ InOneLeaf(prevDoc, k)
    /\ ~ isComposing(prevDoc, k)
    /\ StartOffset(prevDoc) < EndOffset(prevDoc)
    /\ isAttached(doc, k)

\* The characters of the text leaves among the nodes ks, in their order.
RECURSIVE TextOfLeaves(_, _)
TextOfLeaves(d, ks) ==
  IF ks = << >> THEN << >>
  ELSE (IF isTextNode(d, Head(ks)) THEN d.nodes[Head(ks)].text ELSE << >>)
         \o TextOfLeaves(d, Tail(ks))

\* The characters of the document, in document order.
DocumentText(d) == TextOfLeaves(d, DocumentOrder(d))

\* 1-based place of the node k in the document order (0 when detached).
PlaceOf(d, k) == IndexOf(DocumentOrder(d), k) + 1

\* The point of the selection that comes first in the document, and the
\* other one.
StartPoint(d) ==
  IF PlaceOf(d, d.sel.anchor.key) < PlaceOf(d, d.sel.focus.key)
    THEN d.sel.anchor ELSE d.sel.focus

EndPointOf(d) ==
  IF PlaceOf(d, d.sel.anchor.key) < PlaceOf(d, d.sel.focus.key)
    THEN d.sel.focus ELSE d.sel.anchor

\* The characters of the document before and after a text point.
TextBefore(d, p) ==
  TextOfLeaves(d, SubSeq(DocumentOrder(d), 1, PlaceOf(d, p.key) - 1))
    \o SubSeq(d.nodes[p.key].text, 1, p.offset)

TextAfter(d, p) ==
  SubSeq(d.nodes[p.key].text, p.offset + 1, Len(d.nodes[p.key].text))
    \o TextOfLeaves(d, SubSeq(DocumentOrder(d), PlaceOf(d, p.key) + 1,
                              Len(DocumentOrder(d))))

\* The selection of d goes from a text leaf to another text leaf.
SpansLeaves(d) ==
  /\ d.sel.anchor.type = "text"
  /\ d.sel.focus.type = "text"
  /\ d.sel.anchor.key # d.sel.focus.key
  /\ SelectionValid(d)
  /\ TreeConnected(d)

\* The leaves of d strictly between the two points of its selection.
LeavesBetween(d) ==
  { k \in 1 .. Len(d.nodes) :
      /\ isLeafNode(d, k)
      /\ PlaceOf(d, StartPoint(d).key) < PlaceOf(d, k)
      /\ PlaceOf(d, k) < PlaceOf(d, EndPointOf(d).key) }

\* What insertText of text over a range of several leaves leaves: the first
\* leaf may be the node it was or a node that replaces it.
SplicedAcross(before, after, text) ==
  /\ after.err = ""
  /\ DocumentText(after)
       = TextBefore(before, StartPoint(before)) \o text
           \o TextAfter(before, EndPointOf(before))
  /\ \A k \in LeavesBetween(before) : ~ isAttached(after, k)
  /\ \/ \E n \in 1 .. Len(after.nodes) :
          /\ isTextNode(after, n)
          /\ isAttached(after, n)
          /\ n = StartPoint(before).key \/ ~ HasNode(before, n)
          /\ after.nodes[n].text
               = SubSeq(before.nodes[StartPoint(before).key].text, 1,
                        StartPoint(before).offset) \o text
     \/ /\ ~ isAttached(after, StartPoint(before).key)
        /\ StartPoint(before).offset = 0
        /\ text = << >>

\* C13 as stated: insertText over a range of several leaves, in either
\* orientation, leaves the text before the start point, the inserted text and
\* the text after the end point; the first leaf keeps its characters before
\* the start followed by the text and every leaf in between is removed.
C13_MultiLeafSplice ==
  (lastOp \in { "insertText", "removeText" } /\ SpansLeaves(prevDoc))
    => SplicedAcross(prevDoc, doc, lastArg)

\* C13, for a range whose first and last leaf are not immutable or inert.
C13_MultiLeafSpliceMutable ==
  (/\ lastOp \in { "insertText", "removeText" }
   /\ SpansLeaves(prevDoc)
   /\ ~ isImmutableOrInert(prevDoc, prevDoc.sel.anchor.key)
   /\ ~ isImmutableOrInert(prevDoc, prevDoc.sel.focus.key))
    => SplicedAcross(prevDoc, doc, lastArg)

\* The format types of the editor.
TextFormatTypes == DOMAIN TEXT_TYPE_TO_FORMAT

\* The pending format after differs from the one before in the bit of type
\* and in no other bit.
ToggledOnly(before, after, type) ==
  \A t \in TextFormatTypes :
    HasFlag(after, TEXT_TYPE_TO_FORMAT[t])
      = (HasFlag(before, TEXT_TYPE_TO_FORMAT[t]) # (t = type))

\* C14: formatText on a collapsed selection changes no node and marks none
\* dirty, keeps the points of the selection and toggles the bit of the given
\* type in the pending format of the selection, no other bit; and formatText
\* of the same type twice in succession on a collapsed selection gives the
\* pending format back.
C14_CollapsedFormatToggle ==
  /\ (lastOp = "formatText" /\ isCollapsed(prevDoc))
       => /\ doc.err = ""
          /\ doc.nodes = prevDoc.nodes
          /\ doc.dirty = {}
          /\ doc.sel.anchor = prevDoc.sel.anchor
          /\ doc.sel.focus = prevDoc.sel.focus
          /\ ToggledOnly(prevDoc.sel.textFormat, doc.sel.textFormat, lastArg[1])
  /\ isCollapsed(doc)
       => \A t \in TextFormatTypes :
            /\ formatText(formatText(Begin(doc), t), t).sel.textFormat
                 = doc.sel.textFormat
            /\ formatText(formatText(Begin(doc), t), t).nodes = doc.nodes
            /\ formatText(formatText(Begin(doc), t), t).dirty = {}

\* formatText has run twice in succession on a collapsed selection: the
\* second run has cleared the bit the first one set.
C14_Witness ==
  /\ lastOp = "formatText"
  /\ isCollapsed(prevDoc)
  /\ HasFlag(prevDoc.sel.textFormat, TEXT_TYPE_TO_FORMAT[lastArg[1]])
  /\ ~ HasFlag(doc.sel.textFormat, TEXT_TYPE_TO_FORMAT[lastArg[1]])
  /\ doc.sel.dirty

\* The format of every character of the text leaves among the nodes ks.
RECURSIVE FormatsOfLeaves(_, _)
FormatsOfLeaves(d, ks) ==
  IF ks = << >> THEN << >>
  ELSE (IF isTextNode(d, Head(ks))
          THEN [ i \in 1 .. Len(d.nodes[Head(ks)].text) |-> getFormat(d, Head(ks)) ]
          ELSE << >>)
         \o FormatsOfLeaves(d, Tail(ks))

\* The format of every character of the document, in document order.
DocumentFormats(d) == FormatsOfLeaves(d, DocumentOrder(d))

\* The selection of d is a range of characters of one text leaf that is not
\* empty.
RangeInOneLeaf(d) ==
  /\ d.sel.anchor.type = "text"
  /\ d.sel.focus.type = "text"
  /\ d.sel.anchor.key = d.sel.focus.key
  /\ d.sel.anchor.offset # d.sel.focus.offset
  /\ SelectionValid(d)
  /\ TreeConnected(d)

\* The number of characters of the document before the leaf k.
CharsBefore(d, k) ==
  Len(TextOfLeaves(d, SubSeq(DocumentOrder(d), 1, PlaceOf(d, k) - 1)))

\* The characters of the document a selection inside one leaf covers are
\* those after the first RangeStart(d), up to RangeEnd(d).
RangeStart(d) == CharsBefore(d, d.sel.anchor.key) + StartOffset(d)

RangeEnd(d) == CharsBefore(d, d.sel.anchor.key) + EndOffset(d)

\* What formatText of type leaves of a range inside one leaf.
FormattedInPlace(before, after, type) ==
  /\ after.err = ""
  /\ DocumentText(after) = DocumentText(before)
  /\ DocumentFormats(after)
       = [ i \in 1 .. Len(DocumentText(before)) |->
             IF RangeStart(before) < i /\ i <= RangeEnd(before)
               THEN toggleTextFormatType(DocumentFormats(before)[i], type, Undef)
               ELSE DocumentFormats(before)[i] ]
  /\ after.sel.anchor.type = "text"
  /\ after.sel.focus.type = "text"
  /\ after.sel.anchor.key = after.sel.focus.key
  /\ SelectionValid(after)
  /\ RangeStart(after) = RangeStart(before)
  /\ RangeEnd(after) = RangeEnd(before)

\* C15 as stated: formatText on a range inside one text leaf keeps the text
\* of the document, toggles the bit of the type on the characters of the
\* range and on no other, and leaves the selection on the formatted
\* characters.
C15_FormatRangeInLeaf ==
  (lastOp = "formatText" /\ RangeInOneLeaf(prevDoc))
    => FormattedInPlace(prevDoc, doc, lastArg[1])

\* C15, for a leaf that is not immutable.
C15_FormatRangeInMutableLeaf ==
  (/\ lastOp = "formatText"
   /\ RangeInOneLeaf(prevDoc)
   /\ ~ isImmutable(prevDoc, prevDoc.sel.anchor.key))
    => FormattedInPlace(prevDoc, doc, lastArg[1])

\* formatText has split a leaf around a range in its middle.
C15_Witness ==
  /\ lastOp = "formatText"
  /\ RangeInOneLeaf(prevDoc)
  /\ ~ isImmutable(prevDoc, prevDoc.sel.anchor.key)
  /\ StartOffset(prevDoc) > 0
  /\ Len(doc.nodes) > Len(prevDoc.nodes)
  /\ doc.err = ""

\* What the leaves among the nodes ks hold, in their order: the characters
\* of a text leaf, the type of another leaf.
RECURSIVE ContentOfLeaves(_, _)
ContentOfLeaves(d, ks) ==
  IF ks = << >> THEN << >>
  ELSE (IF isTextNode(d, Head(ks)) THEN d.nodes[Head(ks)].text
        ELSE IF isLeafNode(d, Head(ks)) THEN << d.nodes[Head(ks)].type >>
        ELSE << >>)
         \o ContentOfLeaves(d, Tail(ks))

\* What the nodes ks and their descendants hold.
ContentOf(d, ks) == ContentOfLeaves(d, PreorderAll(d, ks, Len(d.nodes)))

\* The container insertParagraph splits: the parent of the text leaf of the
\* anchor, or the block of the anchor.
CurrentBlock(d) ==
  IF d.sel.anchor.type = "text" THEN getParent(d, d.sel.anchor.key)
  ELSE d.sel.anchor.key

\* What CurrentBlock(d) holds before the anchor of d.
ContentBeforeAnchor(d) ==
  IF d.sel.anchor.type = "text"
    THEN ContentOf(d, SubSeq(getChildren(d, CurrentBlock(d)), 1,
                             getIndexWithinParent(d, d.sel.anchor.key)))
           \o SubSeq(d.nodes[d.sel.anchor.key].text, 1, d.sel.anchor.offset)
    ELSE ContentOf(d, SubSeq(getChildren(d, CurrentBlock(d)), 1,
                             d.sel.anchor.offset))

\* The selection of d is collapsed in a paragraph, the container that
\* agrees to split.
CaretInParagraph(d) ==
  /\ isCollapsed(d)
  /\ SelectionValid(d)
  /\ TreeConnected(d)
  /\ d.nodes[CurrentBlock(d)].type = "paragraph"

\* The segmented leaf the caret of d is inside of, which a split replaces by
\* new leaves (NULL when the caret is not inside a segmented leaf).
SplitSegmented(d) ==
  IF /\ d.sel.anchor.type = "text"
     /\ isTextNode(d, d.sel.anchor.key)
     /\ isSegmented(d, d.sel.anchor.key)
     /\ d.sel.anchor.offset > 0
     /\ d.sel.anchor.offset < Len(d.nodes[d.sel.anchor.key].text)
    THEN d.sel.anchor.key ELSE NULL

\* The node k is a node of the document the operation started on, and not
\* the segmented leaf that is split.
IsOldNode(k) == HasNode(prevDoc, k) /\ k # SplitSegmented(prevDoc)

\* The selection of d is collapsed at the start of the block b.
CollapsedAtStartOf(d, b) ==
  /\ isCollapsed(d)
  /\ \/ d.sel.anchor = BlockPt(b, 0)
     \/ /\ d.sel.anchor.type = "text"
        /\ d.sel.anchor.offset = 0
        /\ d.sel.anchor.key = getFirstDescendant(d, b)

\* What insertParagraph leaves of the block cur of before, newBlock being
\* the next sibling of cur after it.
SplitInTwo(before, after, cur, newBlock) ==
  /\ after.err = ""
  /\ ~ HasNode(before, newBlock)
  /\ HasNode(after, newBlock)
  /\ after.nodes[newBlock].type = "paragraph"
  /\ getChildren(after, getParent(after, cur))
       = SubSeq(getChildren(before, getParent(before, cur)), 1,
                getIndexWithinParent(before, cur) + 1)
           \o << newBlock >>
           \o getNextSiblings(before, cur)
  /\ ContentOf(after, << cur >>) = ContentBeforeAnchor(before)
  /\ ContentOf(after, << cur >>) \o ContentOf(after, << newBlock >>)
       = ContentOf(before, << cur >>)
  /\ SelectSeq(getChildren(after, cur) \o getChildren(after, newBlock), IsOldNode)
       = SelectSeq(getChildren(before, cur), IsOldNode)
  /\ \A i \in 1 .. Len(getChildren(after, cur)) :
       \/ getChildren(after, cur)[i] = getChildren(before, cur)[i]
       \/ getChildren(before, cur)[i] = SplitSegmented(before)
  /\ CollapsedAtStartOf(after, newBlock)
  /\ DocumentText(after) = DocumentText(before)

AtDocumentStart(d) ==
  /\ isCollapsed(d)
  /\ SelectionValid(d)
  /\ TreeConnected(d)
  /\ d.sel.anchor.type = "text"
  /\ d.sel.anchor.offset = 0
  /\ d.sel.anchor.key = getFirstDescendant(d, ROOT)
  /\ getParent(d, d.sel.anchor.key) = getFirstChild(d, ROOT)

\* The operation has changed nothing: no node, no mark, no selection.
NothingDone(before, after) ==
  /\ after.err = ""
  /\ after.nodes = before.nodes
  /\ after.dirty = {}
  /\ after.sel = before.sel

\* C17: deleteBackward with the selection collapsed at the start of the
\* document removes no text, creates, removes and marks no node, leaves the
\* selection as it was and marks nothing that would make the update commit.
C17_DeleteAtStartIsNoOp ==
  (lastOp = "deleteBackward" /\ AtDocumentStart(prevDoc))
    => NothingDone(prevDoc, doc)

\* The document d with the selection over the whole text of the leaf k,
\* forward or backward.
Covering(d, k, forward) ==
  [ d EXCEPT !.sel.anchor = TextPt(k, IF forward THEN 0 ELSE Len(d.nodes[k].text)),
             !.sel.focus = TextPt(k, IF forward THEN Len(d.nodes[k].text) ELSE 0) ]

\* The text leaves of d a selection can cover: in the tree, with text.
CoverableLeaves(d) ==
  { k \in 1 .. Len(d.nodes) :
      isTextNode(d, k) /\ isAttached(d, k) /\ d.nodes[k].text # << >> }

\* insertText of nothing over the selection of d, then insertText of text
\* where the selection has collapsed.
RemovedThenInserted(d, text) == insertText(insertText(d, << >>), text)

\* C18 as stated: when the selection covers the whole text of a leaf, in
\* either orientation, insertText of nothing followed by insertText of the
\* text of the leaf leaves the text of the document as it was.
C18_DeleteInsertCancel ==
  TreeConnected(doc)
    => \A k \in CoverableLeaves(doc) : \A forward \in BOOLEAN :
         /\ RemovedThenInserted(Covering(Begin(doc), k, forward),
                                doc.nodes[k].text).err = ""
         /\ DocumentText(RemovedThenInserted(Covering(Begin(doc), k, forward),
                                             doc.nodes[k].text))
              = DocumentText(doc)

\* The operations that delete.
DeleteOps ==
  { "removeText", "deleteBackward", "deleteForward", "deleteWordBackward",
    "deleteWordForward", "deleteLineBackward", "deleteLineForward" }

\* The selection of d resolves to no node: getNodes() is empty.
SelectsNoNode(d) ==
  /\ SelectionValid(d)
  /\ TreeConnected(d)
  /\ ~ getNodes(d).err
  /\ getNodes(d).nodes = << >>

\* The tree and the points of the selection are as they were; a node created
\* by the way is not in the tree.
TreeAndSelectionKept(before, after) ==
  /\ after.err = ""
  /\ \A k \in 1 .. Len(before.nodes) : after.nodes[k] = before.nodes[k]
  /\ \A k \in (Len(before.nodes) + 1) .. Len(after.nodes) : ~ isAttached(after, k)
  /\ after.sel.anchor = before.sel.anchor
  /\ after.sel.focus = before.sel.focus

\* C19 as stated: when the selection resolves to no node, the operations
\* that delete return without an error and leave the tree and the selection
\* as they were.
C19_DeleteOnNoNodes ==
  (lastOp \in DeleteOps /\ SelectsNoNode(prevDoc))
    => TreeAndSelectionKept(prevDoc, doc)

\* C19, as far as it holds: on a selection that resolves to no node no
\* operation that deletes ends with an error, and removeText leaves the tree
\* and the selection as they were.
C19_DeleteOnNoNodesNoError ==
  (lastOp \in DeleteOps /\ SelectsNoNode(prevDoc))
    => /\ doc.err = ""
       /\ lastOp = "removeText" => TreeAndSelectionKept(prevDoc, doc)

\* removeText has run on a selection collapsed in an empty paragraph: it has
\* put a text node there and has removed it again.
C19_Witness ==
  /\ lastOp = "removeText"
  /\ SelectsNoNode(prevDoc)
  /\ isCollapsed(prevDoc)
  /\ Len(doc.nodes) = Len(prevDoc.nodes) + 1
  /\ doc.err = ""

\* The text leaves of d that are immutable or inert.
FrozenLeaves(d) ==
  { k \in 1 .. Len(d.nodes) : isTextNode(d, k) /\ isImmutableOrInert(d, k) }

\* C20: insertText, whatever the selection and the text, leaves every
\* immutable or inert leaf with the text and the mode it had: the leaf stays
\* as it was or leaves the tree as a whole.
C20_FrozenTextKept ==
  lastOp \in { "insertText", "removeText" }
    => \A k \in FrozenLeaves(prevDoc) :
         /\ doc.nodes[k].text = prevDoc.nodes[k].text
         /\ doc.nodes[k].mode = prevDoc.nodes[k].mode
         /\ doc.nodes[k].format = prevDoc.nodes[k].format

\* Text was inserted over a range that starts inside an immutable or inert
\* leaf: the leaf has left the tree with its text.
C20_Witness ==
  /\ lastOp = "insertText"
  /\ lastArg # << >>
  /\ doc.err = ""
  /\ \E k \in FrozenLeaves(prevDoc) :
       /\ prevDoc.sel.anchor.key = k
       /\ ~ isCollapsed(prevDoc)
       /\ isAttached(prevDoc, k)
       /\ ~ isAttached(doc, k)

\* The selection of d is a range that starts in one leaf and ends in
\* another.
RangeOverLeaves(d) ==
  /\ d.sel.anchor.type = "text"
  /\ d.sel.focus.type = "text"
  /\ d.sel.anchor.key # d.sel.focus.key
  /\ SelectionValid(d)
  /\ TreeConnected(d)

\* The immutable text leaves of d.
ImmutableLeaves(d) ==
  { k \in 1 .. Len(d.nodes) : isTextNode(d, k) /\ isImmutable(d, k) }

\* The immutable leaves of before have in after the format they had.
ImmutableFormatsKept(before, after) ==
  \A k \in ImmutableLeaves(before) :
    after.nodes[k].format = before.nodes[k].format

\* C21 as stated: formatText on a range over several leaves passes over the
\* immutable leaves of the range, the first and the last one included: it
\* ends without an error and every immutable leaf has the format it had.
C21_FormatSkipsImmutable ==
  (/\ lastOp = "formatText"
   /\ RangeOverLeaves(prevDoc)
   /\ ImmutableLeaves(prevDoc) # {})
    => /\ doc.err = ""
       /\ ImmutableFormatsKept(prevDoc, doc)

\* C21, the format alone: whatever the range and however formatText ends,
\* every immutable leaf has the format it had.
C21_ImmutableFormatKept ==
  (lastOp = "formatText" /\ ~ isCollapsed(prevDoc))
    => ImmutableFormatsKept(prevDoc, doc)

\* C21, for a range over an immutable leaf whose first and last leaf are not
\* immutable: the leaves around the immutable one are formatted.
C21_FormatSkipsImmutableBetween ==
  (/\ lastOp = "formatText"
   /\ RangeOverLeaves(prevDoc)
   /\ ImmutableLeaves(prevDoc) # {}
   /\ ~ isImmutable(prevDoc, prevDoc.sel.anchor.key)
   /\ ~ isImmutable(prevDoc, prevDoc.sel.focus.key))
    => /\ doc.err = ""
       /\ ImmutableFormatsKept(prevDoc, doc)
       /\ doc.nodes[prevDoc.sel.anchor.key].format # prevDoc.nodes[prevDoc.sel.anchor.key].format
       /\ doc.nodes[prevDoc.sel.focus.key].format # prevDoc.nodes[prevDoc.sel.focus.key].format

\* formatText has passed over an immutable leaf between two leaves that
\* it has formatted.
C21_WitnessBetween ==
  /\ lastOp = "formatText"
  /\ RangeOverLeaves(prevDoc)
  /\ \E k \in ImmutableLeaves(prevDoc) :
       k \notin { prevDoc.sel.anchor.key, prevDoc.sel.focus.key }
  /\ doc.err = ""

\* formatText has run on a range over several leaves that starts in an
\* immutable leaf.
C21_Witness ==
  /\ lastOp = "formatText"
  /\ RangeOverLeaves(prevDoc)
  /\ isImmutable(prevDoc, prevDoc.sel.anchor.key)

\* The segmented text leaves of the tree of d.
SegmentedLeaves(d) ==
  { k \in 1 .. Len(d.nodes) :
      isTextNode(d, k) /\ isSegmented(d, k) /\ isAttached(d, k) }

\* The number of whitespace characters among the first o of text.
SpacesBefore(text, o) ==
  Cardinality({ i \in 1 .. o : text[i] \in Whitespace })

\* The offset o is in text the end of a segment (a caret there has the
\* segment before it) or the start of one (the segment is after it).
AtSegmentEnd(text, o) ==
  /\ o > 0
  /\ text[o] \notin Whitespace
  /\ (o = Len(text) \/ text[o + 1] \in Whitespace)

AtSegmentStart(text, o) ==
  /\ o < Len(text)
  /\ text[o + 1] \notin Whitespace
  /\ (o = 0 \/ text[o] \in Whitespace)

AtSegmentBoundary(text, o, isBackward) ==
  IF isBackward THEN AtSegmentEnd(text, o) ELSE AtSegmentStart(text, o)

\* The sequence without its element i.
WithoutIndex(seq, i) == SubSeq(seq, 1, i - 1) \o SubSeq(seq, i + 1, Len(seq))

\* The text of a segmented leaf without the segment next to the offset o:
\* the other segments, joined by one space.
WithoutSegmentAt(text, o) ==
  JoinWithSpace(WithoutIndex(SplitOnSpace(text, << >>), SpacesBefore(text, o) + 1))

\* What deleteCharacter leaves of the segmented leaf k of before when
\* the text left of it is rest: the leaf out of the tree when rest is
\* empty, and otherwise the leaf with the text rest and the selection
\* collapsed on its end (backward) or its start (forward); no other node
\* has changed its text.
SegmentRemoved(before, after, k, rest, isBackward) ==
  /\ after.err = ""
  /\ \A j \in 1 .. Len(before.nodes) :
       j # k => after.nodes[j].text = before.nodes[j].text
  /\ IF rest = << >> THEN ~ isAttached(after, k)
     ELSE /\ isAttached(after, k)
          /\ after.nodes[k].text = rest
          /\ after.sel.anchor = TextPt(k, IF isBackward THEN Len(rest) ELSE 0)
          /\ after.sel.focus = after.sel.anchor

\* The answers of the surface that keep the focus in the leaf of the caret.
DomInLeaf(d, isBackward) ==
  { p \in DomTargets(d, isBackward, "character") : p.key = d.sel.focus.key }

\* deleteCharacter, the caret at the offset o of the segmented leaf k,
\* removes the segment next to the caret.
SegmentAtCaretRemoved(d, k, o, isBackward) ==
  \A dom \in DomInLeaf(Caret(d.nodes, TextPt(k, o)), isBackward) :
    SegmentRemoved(d, deleteCharacter(Begin(Caret(d.nodes, TextPt(k, o))),
                                      isBackward, dom),
                   k, WithoutSegmentAt(d.nodes[k].text, o), isBackward)

\* deleteCharacter has run on a caret in a segmented leaf, at a segment
\* boundary in the direction isBackward, and the surface has kept the focus
\* in the leaf.
DeletedAtSegmentBoundary(before, isBackward, dom) ==
  /\ isCollapsed(before)
  /\ before.sel.anchor.type = "text"
  /\ before.sel.anchor.key \in SegmentedLeaves(before)
  /\ AtSegmentBoundary(before.nodes[before.sel.anchor.key].text,
                       before.sel.anchor.offset, isBackward)
  /\ dom.key = before.sel.anchor.key

\* C22 as stated: with the caret at a segment boundary of a segmented leaf,
\* deleteCharacter removes the segment next to the caret in the direction
\* of the deletion and nothing else; the text left is the other segments
\* joined, an empty leaf leaves the tree, and the selection is collapsed at
\* the end (backward) or the start (forward) of the text left.
C22_SegmentAtCaretRemoved ==
  (/\ lastOp \in { "deleteBackward", "deleteForward" }
   /\ DeletedAtSegmentBoundary(prevDoc, lastOp = "deleteBackward", lastArg[1]))
    => SegmentRemoved(prevDoc, doc, prevDoc.sel.anchor.key,
                      WithoutSegmentAt(prevDoc.nodes[prevDoc.sel.anchor.key].text,
                                       prevDoc.sel.anchor.offset),
                      lastOp = "deleteBackward")

\* C22, with the caret at the edge of the leaf the deletion moves away
\* from: its end for a backward deletion, its start for a forward one.
C22_SegmentAtLeafEdgeRemoved ==
  doc.err = ""
    => \A k \in SegmentedLeaves(doc) : \A isBackward \in BOOLEAN :
         SegmentAtCaretRemoved(doc, k,
                               IF isBackward THEN Len(doc.nodes[k].text) ELSE 0,
                               isBackward)

\* deleteBackward has removed the last segment of a segmented leaf of
\* several segments, the caret at the end of the leaf.
C22_Witness ==
  /\ lastOp = "deleteBackward"
  /\ isCollapsed(prevDoc)
  /\ prevDoc.sel.anchor.type = "text"
  /\ prevDoc.sel.anchor.key \in SegmentedLeaves(prevDoc)
  /\ prevDoc.sel.anchor.offset = Len(prevDoc.nodes[prevDoc.sel.anchor.key].text)
  /\ doc.err = ""
  /\ Len(doc.nodes[prevDoc.sel.anchor.key].text)
       < Len(prevDoc.nodes[prevDoc.sel.anchor.key].text)
  /\ isAttached(doc, prevDoc.sel.anchor.key)

\* The style of every character of the text leaves among the nodes ks, as
\* the set of its declarations.
RECURSIVE StylesOfLeaves(_, _)
StylesOfLeaves(d, ks) ==
  IF ks = << >> THEN << >>
  ELSE (IF isTextNode(d, Head(ks))
          THEN [ i \in 1 .. Len(d.nodes[Head(ks)].text) |->
                   SeqToSet(getStyle(d, Head(ks))) ]
          ELSE << >>)
         \o StylesOfLeaves(d, Tail(ks))

\* The style of every character of the document, in document order.
DocumentStyles(d) == StylesOfLeaves(d, DocumentOrder(d))

\* The number of characters of the document before the text point p.
PointPlace(d, p) == CharsBefore(d, p.key) + p.offset

\* The selection of d is a range between two text points that is not empty.
RangeOfText(d) ==
  /\ d.sel.anchor.type = "text"
  /\ d.sel.focus.type = "text"
  /\ SelectionValid(d)
  /\ TreeConnected(d)
  /\ PointPlace(d, d.sel.anchor) # PointPlace(d, d.sel.focus)

\* The character i of d is one of its selection.
InRange(d, i) ==
  /\ Min(PointPlace(d, d.sel.anchor), PointPlace(d, d.sel.focus)) < i
  /\ i <= Max(PointPlace(d, d.sel.anchor), PointPlace(d, d.sel.focus))

\* The declarations of a style the patch was merged over: those of the
\* style for the properties the patch does not name, and those of the patch.
PatchedOver(style, patch) ==
  { decl \in style : decl[1] \notin StyleKeys(patch) }
    \cup { << key, PatchValue(patch, key) >> : key \in StyleKeys(patch) }

\* What patchStyleText leaves of a range: the text of the document, and on
\* each character of the range its style with the patch merged over it.
PatchedInPlace(before, after, patch) ==
  /\ after.err = ""
  /\ DocumentText(after) = DocumentText(before)
  /\ DocumentStyles(after)
       = [ i \in 1 .. Len(DocumentText(before)) |->
             IF InRange(before, i)
               THEN PatchedOver(DocumentStyles(before)[i], patch)
               ELSE DocumentStyles(before)[i] ]

\* The text leaves of d with characters in the selection.
CoveredLeaves(d) ==
  { k \in 1 .. Len(d.nodes) :
      /\ isTextNode(d, k)
      /\ isAttached(d, k)
      /\ \E i \in 1 .. Len(d.nodes[k].text) : InRange(d, CharsBefore(d, k) + i) }

\* The range of d starts at the end of a leaf that no text leaf follows in
\* its block.
StartsAtLeafEnd(d) ==
  /\ d.sel.anchor.key # d.sel.focus.key
  /\ StartPoint(d).offset = Len(d.nodes[StartPoint(d).key].text)
  /\ ~ isTextNode(d, getNextSibling(d, StartPoint(d).key))

\* The style string of every text leaf of d is empty or a key of
\* cssToStyles.
StylesMemoised(d) ==
  \A k \in 1 .. Len(d.nodes) :
    isTextNode(d, k) => (getStyle(d, k) = << >> \/ getStyle(d, k) \in d.css)

\* C23, for style strings that patchStyleText has set itself, on a tree
\* without immutable leaves and a range that does not start at the end of a
\* leaf no text follows.
C23_PatchMergedMemoised ==
  (/\ lastOp = "patchStyleText"
   /\ RangeOfText(prevDoc)
   /\ ImmutableLeaves(prevDoc) = {}
   /\ ~ StartsAtLeafEnd(prevDoc)
   /\ StylesMemoised(prevDoc))
    => PatchedInPlace(prevDoc, doc, lastArg)

\* C23, for a collapsed selection.
C23_PatchOnCaretNothing ==
  (lastOp = "patchStyleText" /\ isCollapsed(prevDoc)) => doc = prevDoc

\* patchStyleText has merged a patch over a style with another property,
\* on a part of a leaf.
C23_Witness ==
  /\ lastOp = "patchStyleText"
  /\ RangeOfText(prevDoc)
  /\ StylesMemoised(prevDoc)
  /\ doc.err = ""
  /\ \E k \in CoveredLeaves(prevDoc) :
       /\ StyleKeys(getStyle(prevDoc, k)) \ StyleKeys(lastArg) # {}
       /\ Len(doc.nodes) > Len(prevDoc.nodes)

\* C23 as stated: patchStyleText on a range merges the patch over the style
\* of each character of the range, whatever the style was and however it
\* was set, and keeps the text (on a tree without immutable leaves).
C23_PatchMergedMutable ==
  (/\ lastOp = "patchStyleText"
   /\ RangeOfText(prevDoc)
   /\ ImmutableLeaves(prevDoc) = {}
   /\ ~ StartsAtLeafEnd(prevDoc))
    => PatchedInPlace(prevDoc, doc, lastArg)

\* ============================================== claims, garbage collection

\* C24 as stated: the view model that gets committed holds no detached
\* node, the nodes that the callback or a text transform has detached
\* having left the key-to-node map before the commit.
C24_CommittedHoldsNoDetached ==
  [][viewModel' # viewModel => vms'[viewModel'].garbage = {}]_vars

\* The editor when no callback calls update: update calls are not nested.
NextFlat == Next /\ Len(stack') <= 1

SpecFlat == Init /\ [][NextFlat]_vars

\* While no update call is in progress, no view model holds a detached
\* node.
C24_NoDetachedAtRest ==
  Len(stack) = 0 => \A d \in 1 .. Len(vms) : vms[d].garbage = {}

\* ======================================== claims, block points and ranges

\* The point of the selection of d that comes first in the document, as
\* "anchor" or "focus" (the anchor of a collapsed selection).
FirstEnd(d) ==
  IF isCollapsed(d) \/ PointOrder(d, d.sel.anchor, d.sel.focus) = "before"
    THEN "anchor" ELSE "focus"

\* The attached blocks of d.
AttachedBlocks(d) ==
  { k \in 1 .. Len(d.nodes) : isBlockNode(d, k) /\ isAttached(d, k) }

\* d with the selection from the boundary i to the boundary j of the
\* children of the block b, forward or backward.
BetweenChildren(d, b, i, j, forward) ==
  [ d EXCEPT !.sel.anchor = BlockPt(b, IF forward THEN i ELSE j),
             !.sel.focus = BlockPt(b, IF forward THEN j ELSE i) ]

\* What the end point p becomes when a child is put at the boundary i of
\* the block b and n is the new child.
EndAfterTransfer(p, b, i, n) ==
  IF p.type = "block" /\ p.key = b
    THEN IF p.offset = i THEN TextPt(n, 0) ELSE BlockPt(b, p.offset + 1)
    ELSE p

\* The children after the boundary of the block point p (none for a text
\* point).
ChildrenAfter(d, p) ==
  IF p.type = "block"
    THEN SubSeq(d.nodes[p.key].children, p.offset + 1,
                Len(d.nodes[p.key].children))
    ELSE << >>

\* What transferStartingBlockPointToTextPoint makes of before, start being
\* its first point, a block point: a new empty text leaf n is the child of
\* the block at the index of the point, the other children keep their
\* order, the point is (n, 0), and the end point is (n, 0) as well when it
\* was the same block point, one index further when it was another point
\* of the block, with the same children after it, and as it was otherwise.
TransferredAt(before, after, start, b, i, n) ==
  /\ after.err = ""
  /\ Len(after.nodes) = n
  /\ after.nodes[n] = [ NewNode("text", << >>) EXCEPT !.parent = b ]
  /\ after.nodes[b].children = InsertAt(before.nodes[b].children, i, << n >>)
  /\ \A k \in 1 .. Len(before.nodes) :
       k # b => after.nodes[k] = before.nodes[k]
  /\ after.sel[start] = TextPt(n, 0)
  /\ after.sel[Other(start)] = EndAfterTransfer(before.sel[Other(start)], b, i, n)
  /\ (before.sel[Other(start)].type = "block" /\ after.sel[Other(start)].type = "block")
       => ChildrenAfter(after, after.sel[Other(start)])
            = ChildrenAfter(before, before.sel[Other(start)])

Transferred(before, start) ==
  TransferredAt(before,
                transferStartingBlockPointToTextPoint(before, start, Other(start)),
                start, before.sel[start].key, before.sel[start].offset,
                NextKey(before))

AfterLastOfRoot(d, b, i) == b = ROOT /\ i = Len(d.nodes[b].children)

\* transferStartingBlockPointToTextPoint ends with an error on before, whose
\* first point is start.
TransferRefused(before, start) ==
  transferStartingBlockPointToTextPoint(before, start, Other(start)).err # ""

BlockOfPoint(d, p) == IF p.type = "block" THEN p.key ELSE d.nodes[p.key].parent

\* The selection of d starts in a text leaf of one block and ends in a text
\* leaf of another.
SpansBlocks(d) ==
  /\ SpansLeaves(d)
  /\ BlockOfPoint(d, StartPoint(d)) # BlockOfPoint(d, EndPointOf(d))

\* The keys of seq that are nodes of d attached to its tree.
StillAttached(d, seq) == SelectSeq(seq, LAMBDA k : isAttached(d, k))

\* The keys of seq that are at most n.
KeysUpTo(seq, n) == SelectSeq(seq, LAMBDA k : k <= n)

\* The children of the block of the first leaf, up to that leaf.
ChildrenUpToStart(d) ==
  SubSeq(d.nodes[BlockOfPoint(d, StartPoint(d))].children, 1,
         getIndexWithinParent(d, StartPoint(d).key) + 1)

\* The children of the block of the last leaf after that leaf.
ChildrenAfterEnd(d) ==
  SubSeq(d.nodes[BlockOfPoint(d, EndPointOf(d))].children,
         getIndexWithinParent(d, EndPointOf(d).key) + 2,
         Len(d.nodes[BlockOfPoint(d, EndPointOf(d))].children))

\* The blocks of d around the last leaf of the range and not around the
\* first.
BlocksOfEndOnly(d) ==
  SeqToSet(AncestorsOrSelf(d, BlockOfPoint(d, EndPointOf(d))))
    \ SeqToSet(AncestorsOrSelf(d, BlockOfPoint(d, StartPoint(d))))

\* The nodes of the last block that are left are children of the first
\* block, directly after the first leaf and in the order they had; the
\* siblings after the last leaf are all left, and so is every leaf before
\* the range and after it; the root has its children.
SurvivorsMoved(before, after, fb, lb) ==
  /\ KeysUpTo(after.nodes[fb].children, Len(before.nodes))
       = StillAttached(after, ChildrenUpToStart(before))
           \o StillAttached(after, before.nodes[lb].children)
  /\ \A i \in 1 .. Len(ChildrenAfterEnd(before)) :
       after.nodes[ChildrenAfterEnd(before)[i]].parent = fb
  /\ \A k \in 1 .. Len(before.nodes) :
       (/\ isLeafNode(before, k)
        /\ PlaceOf(before, k) > 0
        /\ \/ PlaceOf(before, k) < PlaceOf(before, StartPoint(before).key)
           \/ PlaceOf(before, k) > PlaceOf(before, EndPointOf(before).key))
         => isAttached(after, k)
  /\ after.nodes[ROOT].children # << >>
  /\ after.nodes[ROOT].parent = NULL

ItemOf(d, k) ==
  IF isTextNode(d, k) THEN << "text", d.nodes[k].text >> ELSE << "node", k >>

ItemsOf(d, keys) == [ i \in 1 .. Len(keys) |-> ItemOf(d, keys[i]) ]

\* The selection of d is a caret in an attached text leaf that is neither
\* immutable, inert nor segmented.
CaretInMutableLeaf(d) ==
  /\ isCollapsed(d)
  /\ d.sel.anchor.type = "text"
  /\ isTextNode(d, d.sel.anchor.key)
  /\ d.nodes[d.sel.anchor.key].mode = "normal"
  /\ isAttached(d, d.sel.anchor.key)
  /\ TreeConnected(d)
  /\ SelectionValid(d)

\* The children of the block of the caret that hold the content before it,
\* and those that hold the content after it.
ItemsBeforeCaret(d, k, o, kids, i) ==
  IF o = 0 /\ d.nodes[k].text # << >> THEN ItemsOf(d, SubSeq(kids, 1, i - 1))
  ELSE IF o = Len(d.nodes[k].text) THEN ItemsOf(d, SubSeq(kids, 1, i))
  ELSE ItemsOf(d, SubSeq(kids, 1, i - 1))
         \o << << "text", SubSeq(d.nodes[k].text, 1, o) >> >>

ItemsAfterCaret(d, k, o, kids, i) ==
  IF o = 0 /\ d.nodes[k].text # << >> THEN ItemsOf(d, SubSeq(kids, i, Len(kids)))
  ELSE IF o = Len(d.nodes[k].text) THEN ItemsOf(d, SubSeq(kids, i + 1, Len(kids)))
  ELSE << << "text", SubSeq(d.nodes[k].text, o + 1, Len(d.nodes[k].text)) >> >>
         \o ItemsOf(d, SubSeq(kids, i + 1, Len(kids)))

\* The children the block of the caret of before has in after are the
\* content before the caret, the inserted nodes c.r in their order, the rest
\* of the leaf and the siblings that followed it.
InsertedInOrder(before, after, c, k, p) ==
  ItemsOf(after, after.nodes[p].children)
    = ItemsBeforeCaret(before, k, before.sel.anchor.offset,
                       before.nodes[p].children,
                       IndexOf(before.nodes[p].children, k) + 1)
        \o ItemsOf(c.d, c.r)
        \o ItemsAfterCaret(before, k, before.sel.anchor.offset,
                           before.nodes[p].children,
                           IndexOf(before.nodes[p].children, k) + 1)

\* Every other block of before has in after the children it had.
OtherBlocksKept(before, after, p) ==
  \A b \in AttachedBlocks(before) \ { p } :
    after.nodes[b].children = before.nodes[b].children

\* The points that stand directly before the child of index i of p.
PointsBefore(d, p, i) ==
  { BlockPt(p, i - 1) }
    \cup { TextPt(k, Len(d.nodes[k].text)) :
             k \in { x \in { ChildAt(d.nodes[p].children, i - 2) } :
                       isTextNode(d, x) } }
    \cup { TextPt(k, 0) :
             k \in { x \in { ChildAt(d.nodes[p].children, i - 1) } :
                       isTextNode(d, x) } }

\* The selection of after is a caret at the start of the n inserted nodes
\* (atStart), or at their end, lead being the number of children before them.
CaretAtSpan(after, p, lead, n, atStart) ==
  /\ isCollapsed(after)
  /\ after.sel.anchor
       \in PointsBefore(after, p, IF atStart THEN lead + 1 ELSE lead + n + 1)

LeafLists == { "text", "decorator", "leaves" }

InsertedAtCaret(before, after, c, k, p, atStart) ==
  /\ after.err = ""
  /\ InsertedInOrder(before, after, c, k, p)
  /\ OtherBlocksKept(before, after, p)
  /\ CaretAtSpan(after, p,
                 Len(ItemsBeforeCaret(before, k, before.sel.anchor.offset,
                                      before.nodes[p].children,
                                      IndexOf(before.nodes[p].children, k) + 1)),
                 Len(c.r), atStart)

\* C27 (as stated): insertNodes with a list of leaves on a caret in a mutable
\* text leaf puts the leaves at the caret in their order, loses and
\* duplicates no node, and leaves the caret at the end of the inserted nodes,
\* or at their start when selectStart is true.
C27_LeavesInsertedAtCaret ==
  (/\ lastOp = "insertNodes"
   /\ lastArg[1] \in LeafLists
   /\ CaretInMutableLeaf(prevDoc))
    => InsertedAtCaret(prevDoc, doc, CreateNodeList(prevDoc, lastArg[1]),
                       prevDoc.sel.anchor.key,
                       prevDoc.nodes[prevDoc.sel.anchor.key].parent,
                       lastArg[2])

\* The part of C27 the code keeps: the order and the nodes for every list of
\* leaves, the caret for a list of one leaf and whenever selectStart is false.
C27_LeavesInOrder ==
  (/\ lastOp = "insertNodes"
   /\ lastArg[1] \in LeafLists
   /\ CaretInMutableLeaf(prevDoc))
    => /\ doc.err = ""
       /\ InsertedInOrder(prevDoc, doc, CreateNodeList(prevDoc, lastArg[1]),
                          prevDoc.sel.anchor.key,
                          prevDoc.nodes[prevDoc.sel.anchor.key].parent)
       /\ OtherBlocksKept(prevDoc, doc,
                          prevDoc.nodes[prevDoc.sel.anchor.key].parent)
       /\ (lastArg[1] # "leaves" \/ ~ lastArg[2])
            => InsertedAtCaret(prevDoc, doc,
                               CreateNodeList(prevDoc, lastArg[1]),
                               prevDoc.sel.anchor.key,
                               prevDoc.nodes[prevDoc.sel.anchor.key].parent,
                               lastArg[2])

\* ------------------------------------------------- claims, commit liveness

\* The editor under the scheduling of the host: a callback that was entered
\* returns, and every queued Promise callback is run.
SpecLive == Spec /\ WF_vars(UpdateEnd) /\ WF_vars(RunMicrotask)

\* The drafts update can clone: one for each call.
Drafts == 2 .. (MaxCalls + 1)

\* update has just returned true for the draft d.
ReturnedTrue(d) == last.op = "return" /\ last.value /\ last.draft = d

\* The draft d has become the current view model and was handed to the
\* update listeners.
Committed(d) == d \in SeqToSet(notified)

\* Nothing is in progress and nothing is scheduled.
AtRest == Len(stack) = 0 /\ microtasks = 0

\* C28 (as stated): every draft for which update returned true is committed
\* in the end, no draft is committed twice, and once every scheduled callback
\* has run no view model is pending.
C28_DraftCommittedOnce ==
  /\ \A d \in Drafts : ReturnedTrue(d) ~> Committed(d)
  /\ [](NoDuplicates(notified))
  /\ [](AtRest => pendingViewModel = NULL)

\* The editor when no callback calls update and the editing surface is
\* not changed under a draft.
NextUpdates == NextFlat /\ last'.op # "setEditorElement"

SpecUpdates ==
  Init /\ [][NextUpdates]_vars /\ WF_vars(UpdateEnd) /\ WF_vars(RunMicrotask)

\* The three parts of C28, one by one.
C28_ReturnedTrueCommitted == \A d \in Drafts : ReturnedTrue(d) ~> Committed(d)

C28_CommittedOnce == NoDuplicates(notified)

C28_NothingPendingAtRest == AtRest => pendingViewModel = NULL

\* -------------------------------------------- claims, selection orientation

\* The document d with the two points of its selection swapped.
Swapped(d) == [ d EXCEPT !.sel.anchor = d.sel.focus, !.sel.focus = d.sel.anchor ]

\* The selection of d is a range between two text points.
RangeOfCharacters(d) ==
  /\ ~ isCollapsed(d)
  /\ d.sel.anchor.type = "text"
  /\ d.sel.focus.type = "text"
  /\ SelectionValid(d)
  /\ TreeConnected(d)

\* formatText gives the characters of d the same formats and leaves the same
\* text, whichever of the two points of the range is the anchor.
SameFormatted(d, t) ==
  /\ DocumentFormats(formatText(d, t)) = DocumentFormats(formatText(Swapped(d), t))
  /\ DocumentText(formatText(d, t)) = DocumentText(formatText(Swapped(d), t))

\* The range of d starts at the very end of a text leaf and ends inside the
\* next sibling of that leaf.
EndsInNextSibling(d) ==
  /\ RangeOfCharacters(d)
  /\ StartPoint(d).offset = getTextContentSize(d, StartPoint(d).key)
  /\ getNextSibling(d, StartPoint(d).key) = EndPointOf(d).key
  /\ EndPointOf(d).offset > 0

\* C29 (as stated): the formats and the text formatText leaves do not depend
\* on the orientation of the selection, the range that starts at the end of
\* a leaf and ends inside its next sibling included.
C29_FormatOrientation ==
  (nOps < MaxOps /\ RangeOfCharacters(doc))
    => \A t \in FormatTypes : SameFormatted(Begin(doc), t)

\* C29 for every range but the one that starts at the very end of a leaf and
\* ends inside its next sibling.
C29_FormatOrientationElsewhere ==
  (nOps < MaxOps /\ RangeOfCharacters(doc) /\ ~ EndsInNextSibling(doc))
    => \A t \in FormatTypes : SameFormatted(Begin(doc), t)

\* ------------------------------------------------ claims, deleteCharacter

\* The sequence s without its elements of the 0-based places a .. b - 1.
WithoutRange(s, a, b) == SubSeq(s, 1, a) \o SubSeq(s, b + 1, Len(s))

\* How many code units deleteCharacter is to remove when the surface moved
\* the focus ext code units over the text units: all of them when they hold a
\* grapheme or are one unit, else one.
UnitsToRemove(units, ext) ==
  IF ext > 1 /\ ~ doesContainGrapheme(units) THEN 1 ELSE ext

\* The text of after is the text of before without the n code units next to
\* the caret, which is at the offset o of the leaf k.
RemovedAtCaret(before, after, k, o, n, isBackward) ==
  /\ after.err = ""
  /\ DocumentText(after)
       = WithoutRange(DocumentText(before),
                      CharsBefore(before, k) + (IF isBackward THEN o - n ELSE o),
                      CharsBefore(before, k) + (IF isBackward THEN o ELSE o + n))

\* The code units of the leaf k between the offsets o and p.
UnitsBetween(d, k, o, p) == JsSlice(d.nodes[k].text, Min(o, p), Max(o, p))

\* deleteCharacter ran on a caret in a normal text leaf and the surface
\* moved the focus inside that leaf.
DeletedInLeaf(op) ==
  /\ lastOp = op
  /\ CaretInMutableLeaf(prevDoc)
  /\ lastArg[1].type = "text"
  /\ lastArg[1].key = prevDoc.sel.anchor.key

\* What C30 says of the operation that has just run.
DeletedNextToCaret(isBackward) ==
  RemovedAtCaret(prevDoc, doc, prevDoc.sel.anchor.key,
                 prevDoc.sel.anchor.offset,
                 UnitsToRemove(UnitsBetween(prevDoc, prevDoc.sel.anchor.key,
                                            prevDoc.sel.anchor.offset,
                                            lastArg[1].offset),
                               Max(prevDoc.sel.anchor.offset, lastArg[1].offset)
                                 - Min(prevDoc.sel.anchor.offset,
                                       lastArg[1].offset)),
                 isBackward)

\* C30 (as stated): deleteCharacter on a caret at the offset k of a normal
\* text leaf removes the code units next to the caret, before it when
\* deleting backward and after it when deleting forward: all the units the
\* surface extended over when they are one grapheme, else the one unit next
\* to the caret.
C30_DeletedNextToCaret ==
  /\ DeletedInLeaf("deleteBackward") => DeletedNextToCaret(TRUE)
  /\ DeletedInLeaf("deleteForward") => DeletedNextToCaret(FALSE)

\* C30 for a backward deletion.
C30_DeletedBeforeCaret ==
  DeletedInLeaf("deleteBackward") => DeletedNextToCaret(TRUE)

\* C30 for a forward deletion over one code unit or over a grapheme.
C30_DeletedAfterCaret ==
  (/\ DeletedInLeaf("deleteForward")
   /\ \/ lastArg[1].offset = prevDoc.sel.anchor.offset + 1
      \/ doesContainGrapheme(UnitsBetween(prevDoc, prevDoc.sel.anchor.key,
                                          prevDoc.sel.anchor.offset,
                                          lastArg[1].offset)))
    => DeletedNextToCaret(FALSE)

====
